---- MODULE Spec2Model ----
(***************************************************************************)
(* A model of the measurement-and-structural modelling engine of           *)
(* gscm-mining-impact-analysis: the construct score builder                *)
(* (src/preprocessing/construct_scores.py), the KPI index builder          *)
(* (src/preprocessing/kpi_scores.py), the outer model estimator            *)
(* (src/analysis/outer_model.py) and the structural path estimator         *)
(* (src/analysis/structural_paths.py), over the static configuration of    *)
(* src/config/model_config.py.                                             *)
(*                                                                         *)
(* A state of the model is one call, the argument it was given and         *)
(* everything the call produced, next to the module-level dictionaries     *)
(* the calls read.  Numbers are exact rationals and square roots of        *)
(* rationals; the rounding of float64 is followed where a comparison with  *)
(* zero decides the result (the mean of equal values in                    *)
(* _standardize_series, the composite in _compute_loadings_cr_ave).        *)
(***************************************************************************)
EXTENDS Integers, Sequences, FiniteSets, TLC

VARIABLES
    op,               \* the operation that was called last ("none" at start)
    CONSTRUCTS_keys,  \* iteration order of the CONSTRUCTS dictionary
    df,               \* the table the caller passed in
    method,           \* the method argument of the KPI index operations
    construct_codes,  \* the construct_codes argument of compute_outer_model
    err,              \* the exception the call ended with ("none": it returned)
    errNames,         \* the column / key names the exception's message lists
    out,              \* the table the call returned (NoTable when it failed)
    steps,            \* the sub-operations the call went through, in order
    reports,          \* result rows produced (printed or collected) by the call
    weight_maps,      \* the module-level dictionaries OE_WEIGHTS and SAFETY_WEIGHTS
    previous,         \* the outcome of the same call made just before (or NoCall)
    df_after          \* the caller's table as the call left it

vars == <<op, CONSTRUCTS_keys, df, method, construct_codes, err, errNames, out,
          steps, reports, weight_maps, previous, df_after>>

(***************************************************************************)
(* Bounds of the model.                                                    *)
(***************************************************************************)
MaxRows == 2      \* rows of a table whose cell values are enumerated
MaxAbsent == 2    \* required columns left out of a table at once
MaxPresent == 2   \* indicator columns present in a sparse indicator table
MaxSites == 3     \* rows of a site-level KPI table whose values are enumerated
MaxCodes == 2     \* construct codes passed to compute_outer_model
MaxObs == 3       \* respondents of an indicator table whose answers are enumerated

(***************************************************************************)
(* Sequences and sets.                                                     *)
(***************************************************************************)
Range(s) == {s[i] : i \in DOMAIN s}

RECURSIVE Flatten(_)
Flatten(ss) == IF ss = <<>> THEN <<>> ELSE Head(ss) \o Flatten(Tail(ss))

Filter(s, S) == SelectSeq(s, LAMBDA x : x \in S)

Reverse(s) == [i \in 1..Len(s) |-> s[Len(s) + 1 - i]]

IsInjective(s) == \A i, j \in DOMAIN s : s[i] = s[j] => i = j

RECURSIVE SeqsUpTo(_, _)
SeqsUpTo(S, n) ==
    IF n = 0 THEN {<<>>}
    ELSE LET shorter == SeqsUpTo(S, n - 1)
         IN  shorter \cup {Append(s, x) : s \in {t \in shorter : Len(t) = n - 1}, x \in S}

\* the subsets of S with at most n elements
RECURSIVE SubsetsUpTo(_, _)
SubsetsUpTo(S, n) ==
    IF n = 0 THEN {{}}
    ELSE LET smaller == SubsetsUpTo(S, n - 1)
         IN  smaller \cup {M \cup {x} : M \in smaller, x \in S}

(***************************************************************************)
(* Cells.  A cell is a number n/d (d > 0, lowest terms), the missing       *)
(* value NaN, or a string (site identifiers, cells of object columns).     *)
(***************************************************************************)
Abs(x) == IF x < 0 THEN -x ELSE x

RECURSIVE GCD(_, _)
GCD(a, b) == IF b = 0 THEN a ELSE GCD(b, a % b)

NaN == [n |-> 0, d |-> 0, s |-> ""]
Str(t) == [n |-> 0, d |-> 0, s |-> t]
Num(a, b) ==
    LET g == GCD(Abs(a), Abs(b))
        sg == IF b < 0 THEN -1 ELSE 1
    IN  [n |-> sg * (a \div g), d |-> sg * (b \div g), s |-> ""]
Int2Num(a) == [n |-> a, d |-> 1, s |-> ""]

IsNum(c) == c.d > 0
IsNaN(c) == c = NaN
IsStr(c) == c.s # ""

RAdd(x, y) == Num(x.n * y.d + y.n * x.d, x.d * y.d)
RNeg(x) == [x EXCEPT !.n = -x.n]
RSub(x, y) == RAdd(x, RNeg(y))
RMul(x, y) == Num(x.n * y.n, x.d * y.d)
RDivInt(x, k) == Num(x.n, x.d * k)
RLess(x, y) == x.n * y.d < y.n * x.d

RECURSIVE RSum(_)
RSum(s) == IF s = <<>> THEN Int2Num(0) ELSE RAdd(Head(s), RSum(Tail(s)))

\* a mean in which one missing cell makes the result missing (skipna=False)
MeanNaNPropagates(cells) ==
    IF \E i \in DOMAIN cells : ~IsNum(cells[i]) THEN NaN
    ELSE IF cells = <<>> THEN NaN ELSE RDivInt(RSum(cells), Len(cells))

\* pandas' mean with skipna=True: the mean of the numbers among the cells,
\* NaN when there is none.
MeanSkipNa(cells) ==
    LET valid == SelectSeq(cells, IsNum)
    IN  IF valid = <<>> THEN NaN ELSE RDivInt(RSum(valid), Len(valid))

(***************************************************************************)
(* Tables (pandas DataFrame): the column names in order, the columns of    *)
(* object dtype, and the rows, each a function from column name to cell.   *)
(***************************************************************************)
NoTable == [cols |-> <<>>, obj |-> {}, rows |-> <<>>]

\* no earlier outcome is held
NoCall == [err |-> "", out |-> NoTable]

Columns(t) == Range(t.cols)

\* t[names]: the columns `names`, in that order
Project(t, names) ==
    [cols |-> names,
     obj  |-> t.obj \cap Range(names),
     rows |-> [i \in 1..Len(t.rows) |-> [c \in Range(names) |-> t.rows[i][c]]]]

\* the cells of row r under the columns `names`, in that order
RowCells(r, names) == [i \in 1..Len(names) |-> r[names[i]]]

(***************************************************************************)
(* src/config/model_config.py                                              *)
(***************************************************************************)
LIKERT_MIN == 1
LIKERT_MAX == 5

\* code -> indicators; the dictionary's iteration order is CONSTRUCTS_keys
CONSTRUCTS ==
    [GPUR   |-> <<"GPUR_1", "GPUR_2", "GPUR_3", "GPUR_4">>,
     GOPS   |-> <<"GOPS_1", "GOPS_2", "GOPS_3", "GOPS_4">>,
     GLOG   |-> <<"GLOG_1", "GLOG_2", "GLOG_3">>,
     GTRN   |-> <<"GTRN_1", "GTRN_2", "GTRN_3">>,
     GCOL   |-> <<"GCOL_1", "GCOL_2", "GCOL_3">>,
     SUPINT |-> <<"SUPINT_1", "SUPINT_2", "SUPINT_3">>,
     MAINT  |-> <<"MAINT_1", "MAINT_2", "MAINT_3">>,
     COMP   |-> <<"COMP_1", "COMP_2", "COMP_3">>,
     OE     |-> <<"OE_1", "OE_2", "OE_3", "OE_4", "OE_5">>,
     EP     |-> <<"EP_1", "EP_2", "EP_3", "EP_4", "EP_5">>]

\* the order in which the source file writes the dictionary
SourceKeys ==
    <<"GPUR", "GOPS", "GLOG", "GTRN", "GCOL", "SUPINT", "MAINT", "COMP", "OE", "EP">>

\* the codes in the dictionary's own iteration order
get_construct_codes_dict_order == CONSTRUCTS_keys

get_construct_codes ==
    LET ordered == <<"GPUR", "GOPS", "GLOG", "GTRN", "GCOL",
                     "SUPINT", "MAINT", "COMP",
                     "OE", "EP">>
    IN  Filter(ordered, DOMAIN CONSTRUCTS)
          \o Filter(CONSTRUCTS_keys, (DOMAIN CONSTRUCTS) \ Range(ordered))

all_indicators ==
    Flatten([i \in 1..Len(CONSTRUCTS_keys) |-> CONSTRUCTS[CONSTRUCTS_keys[i]]])

\* The CORE_KPIS list.  The source has no comma between "fifr" and
\* "safety_audits_passed_percent": Python joins adjacent string literals,
\* so the list holds one string made of both.
CORE_KPIS ==
    <<"uptime_percent", "unplanned_downtime_hours", "tons_per_hour",
      "rework_rate_percent",
      "energy_kwh_per_ton", "water_m3_per_ton",
      "cost_per_ton", "maintenance_cost_per_ton",
      "on_time_delivery_percent", "supplier_defect_percent",
      "ltifr", "trifr", "sifr", "fifrsafety_audits_passed_percent",
      "employees_competent_percent">>

\* the KPI_CATEGORIES dictionary
KPI_CATEGORIES ==
    [operational |-> <<"uptime_percent", "unplanned_downtime_hours", "tons_per_hour",
                       "rework_rate_percent">>,
     environmental |-> <<"energy_kwh_per_ton", "water_m3_per_ton">>,
     cost |-> <<"cost_per_ton", "maintenance_cost_per_ton">>,
     supply_chain |-> <<"on_time_delivery_percent", "supplier_defect_percent">>,
     safety |-> <<"ltifr", "trifr", "sifr", "fifr", "frontline_stoppages_percent",
                  "near_miss_reports", "critical_control_compliance_percent",
                  "iso_45001_certified">>]

\* name in CORE_KPIS
is_core_kpi(name) == name \in Range(CORE_KPIS)

\* the KPIs of every category, each once
list_all_kpis ==
    KPI_CATEGORIES.operational \o KPI_CATEGORIES.environmental \o KPI_CATEGORIES.cost
      \o KPI_CATEGORIES.supply_chain \o KPI_CATEGORIES.safety

(***************************************************************************)
(* src/preprocessing/construct_scores.py                                   *)
(***************************************************************************)
SITE_ID_COL == "site_id"

\* A call's result: the exception ("none": it returned), the names its
\* message lists, the table returned and the sub-operations gone through.
Returned(t, st) == [err |-> "none", names |-> {}, table |-> t, steps |-> st]
Raised(e, names, st) == [err |-> e, names |-> names, table |-> NoTable, steps |-> st]

\* a validation that stops at the first missing column
validate_survey_columns_first_only(t) ==
    LET missing == (IF SITE_ID_COL \notin Columns(t) THEN <<SITE_ID_COL>> ELSE <<>>)
                     \o Filter(all_indicators, Range(all_indicators) \ Columns(t))
    IN  IF missing = <<>> THEN {} ELSE {Head(missing)}

\* The names the ValueError of validate_survey_columns lists
\* (sorted(set(missing))); the empty set: nothing is raised.
validate_survey_columns(t) ==
    LET missing == (IF SITE_ID_COL \notin Columns(t) THEN <<SITE_ID_COL>> ELSE <<>>)
                     \o Filter(all_indicators, Range(all_indicators) \ Columns(t))
    IN  Range(missing)

\* The order of the group keys: pandas sorts them (sort=True); the site
\* identifiers of the model in their lexicographic order.
SiteOrder == <<"A", "B", "C", "D">>

\* df.groupby(SITE_ID_COL).mean(numeric_only=True).reset_index(): one row
\* per distinct non-missing key, in sorted order; the key first, then every
\* other column of numeric dtype with the mean of its non-missing cells.
GroupKeys(t) ==
    Filter(SiteOrder, {t.rows[i][SITE_ID_COL].s : i \in 1..Len(t.rows)} \ {""})

GroupMean(t) ==
    LET keys == GroupKeys(t)
        numeric == SelectSeq(t.cols, LAMBDA c : c # SITE_ID_COL /\ c \notin t.obj)
        groups == [k \in Range(keys) |->
                     SelectSeq(t.rows, LAMBDA r : r[SITE_ID_COL] = Str(k))]
    IN  [cols |-> <<SITE_ID_COL>> \o numeric,
         obj  |-> {SITE_ID_COL},
         rows |-> [i \in 1..Len(keys) |->
                     [c \in {SITE_ID_COL} \cup Range(numeric) |->
                        IF c = SITE_ID_COL THEN Str(keys[i])
                        ELSE MeanSkipNa([j \in 1..Len(groups[keys[i]]) |->
                                           groups[keys[i]][j][c]])]]]

compute_indicator_means_per_site(t) ==
    LET missing == validate_survey_columns(t)
    IN  IF missing # {}
        THEN Raised("SchemaError", missing, <<"validate">>)
        ELSE LET grouped == GroupMean(t)
                 cols_to_keep == <<SITE_ID_COL>>
                                   \o Filter(all_indicators, Columns(grouped))
             IN  Returned(Project(grouped, cols_to_keep), <<"validate", "groupby">>)

\* columns.duplicated(): True for a name that occurred before
RECURSIVE DropDuplicated(_)
DropDuplicated(names) ==
    IF names = <<>> THEN <<>>
    ELSE LET n == Len(names)
             init == DropDuplicated(SubSeq(names, 1, n - 1))
         IN  IF names[n] \in Range(init) THEN init ELSE Append(init, names[n])

\* The indicators of `code` that are columns of the table, in the
\* configured order.
PresentIndicators(t, code) == Filter(CONSTRUCTS[code], Columns(t))

\* the codes scored when a construct without indicators is not skipped
ScoredCodes_no_skip(indicator_means) == get_construct_codes

\* The constructs given a column: those with an indicator in the table, in
\* the order of get_construct_codes.
ScoredCodes(indicator_means) ==
    SelectSeq(get_construct_codes,
              LAMBDA code : PresentIndicators(indicator_means, code) # <<>>)

\* a score that divides by the number of configured indicators
ConstructScore_over_configured(indicator_means, r, code) ==
    LET cells == SelectSeq(RowCells(r, PresentIndicators(indicator_means, code)), IsNum)
    IN  IF cells = <<>> THEN NaN ELSE RDivInt(RSum(cells), Len(CONSTRUCTS[code]))

\* indicator_means[indicators].mean(axis=1), for one row
ConstructScore(indicator_means, r, code) ==
    MeanSkipNa(RowCells(r, PresentIndicators(indicator_means, code)))

compute_construct_scores(indicator_means) ==
    IF SITE_ID_COL \notin Columns(indicator_means)
    THEN Raised("KeyError", {SITE_ID_COL}, <<>>)
    ELSE LET cols == DropDuplicated(<<SITE_ID_COL>> \o ScoredCodes(indicator_means))
         IN  Returned(
               [cols |-> cols,
                obj  |-> indicator_means.obj \cap {SITE_ID_COL},
                rows |-> [i \in 1..Len(indicator_means.rows) |->
                            [c \in Range(cols) |->
                               IF c = SITE_ID_COL
                               THEN indicator_means.rows[i][SITE_ID_COL]
                               ELSE ConstructScore(indicator_means,
                                                   indicator_means.rows[i], c)]]],
               <<"scores">>)

build_site_construct_table(survey_df) ==
    LET means == compute_indicator_means_per_site(survey_df)
    IN  IF means.err # "none" THEN means
        ELSE LET scores == compute_construct_scores(means.table)
             IN  [scores EXCEPT !.steps = means.steps \o scores.steps]

(***************************************************************************)
(* Standardised values.  A z-score divides by a standard deviation, the    *)
(* square root of a rational: a standardised cell is the exact sum         *)
(*     n/d + SUM over its terms t of (t.n/t.d) * sqrt(t.r)                 *)
(* with every t.r > 1 squarefree, the terms in increasing t.r and no       *)
(* coefficient zero (square roots of distinct squarefree numbers are       *)
(* linearly independent over the rationals, so equal values have equal     *)
(* representations).  The missing value has d = 0.                         *)
(***************************************************************************)
SNaN == [n |-> 0, d |-> 0, s |-> "", irr |-> <<>>]
SRat(q) == [n |-> q.n, d |-> q.d, s |-> "", irr |-> <<>>]
SZero == SRat(Int2Num(0))

\* the largest k with k*k dividing m (m > 0)
RECURSIVE LargestSquare(_, _)
LargestSquare(m, k) ==
    IF k * k > m THEN 1
    ELSE LET above == LargestSquare(m, k + 1)
         IN  IF above > 1 THEN above ELSE IF m % (k * k) = 0 THEN k ELSE 1

SquarePart(m) == LargestSquare(m, 1)

\* the sequence of the elements of a set of terms, by increasing radicand
RECURSIVE TermsByRadicand(_)
TermsByRadicand(T) ==
    IF T = {} THEN <<>>
    ELSE LET least == CHOOSE t \in T : \A u \in T : t.r <= u.r
         IN  <<least>> \o TermsByRadicand(T \ {least})

\* the coefficient of sqrt(r) in x (r > 1)
Coef(x, r) ==
    IF \E i \in DOMAIN x.irr : x.irr[i].r = r
    THEN LET t == x.irr[CHOOSE i \in DOMAIN x.irr : x.irr[i].r = r]
         IN  Num(t.n, t.d)
    ELSE Int2Num(0)

Radicands(x) == {x.irr[i].r : i \in DOMAIN x.irr}

SAdd(x, y) ==
    IF x.d = 0 \/ y.d = 0 THEN SNaN
    ELSE LET q == RAdd(Num(x.n, x.d), Num(y.n, y.d))
             T == {[r |-> r, n |-> RAdd(Coef(x, r), Coef(y, r)).n,
                    d |-> RAdd(Coef(x, r), Coef(y, r)).d]
                     : r \in Radicands(x) \cup Radicands(y)}
         IN  [n |-> q.n, d |-> q.d, s |-> "",
              irr |-> TermsByRadicand({t \in T : t.n # 0})]

\* x times the rational q
SScale(x, q) ==
    IF x.d = 0 \/ q.d = 0 THEN SNaN
    ELSE IF q.n = 0 THEN SZero
    ELSE LET p == RMul(Num(x.n, x.d), q)
         IN  [n |-> p.n, d |-> p.d, s |-> "",
              irr |-> [i \in DOMAIN x.irr |->
                         [r |-> x.irr[i].r,
                          n |-> RMul(Num(x.irr[i].n, x.irr[i].d), q).n,
                          d |-> RMul(Num(x.irr[i].n, x.irr[i].d), q).d]]]

SNeg(x) == SScale(x, Int2Num(-1))

\* x divided by the rational q # 0
SDiv(x, q) == SScale(x, Num(q.d, q.n))

\* the rational q divided by the square root of the rational v > 0:
\* q / sqrt(a/b) = q * sqrt(a*b) / a = (q * k / a) * sqrt(r), a*b = k*k*r
DivBySqrt(q, v) ==
    LET k == SquarePart(v.n) * SquarePart(v.d)     \* v.n and v.d are coprime
        r == (v.n * v.d) \div (k * k)
        c == RMul(q, Num(k, v.n))
    IN  IF c.n = 0 THEN SZero
        ELSE IF r = 1 THEN SRat(c)
        ELSE [n |-> 0, d |-> 1, s |-> "", irr |-> <<[r |-> r, n |-> c.n, d |-> c.d]>>]

SIsNum(x) == x.d > 0

RECURSIVE SSum(_)
SSum(xs) == IF xs = <<>> THEN SZero ELSE SAdd(Head(xs), SSum(Tail(xs)))

\* the row-wise mean of standardised cells, missing ones left out
SMeanSkipNa(xs) ==
    LET valid == SelectSeq(xs, SIsNum)
    IN  IF valid = <<>> THEN SNaN ELSE SDiv(SSum(valid), Int2Num(Len(valid)))

\* the terms of x, the rational part as the term of radicand 1
STerms(x) == <<[r |-> 1, n |-> x.n, d |-> x.d]>> \o x.irr

\* c * sqrt(m) for a rational c and an integer m >= 1
STerm(c, m) ==
    LET k == SquarePart(m)
        r == m \div (k * k)
        cc == RMul(c, Int2Num(k))
    IN  IF cc.n = 0 THEN SZero
        ELSE IF r = 1 THEN SRat(cc)
        ELSE [n |-> 0, d |-> 1, s |-> "", irr |-> <<[r |-> r, n |-> cc.n, d |-> cc.d]>>]

SMul(x, y) ==
    IF x.d = 0 \/ y.d = 0 THEN SNaN
    ELSE LET tx == STerms(x)
             ty == STerms(y)
         IN  SSum([p \in 1..(Len(tx) * Len(ty)) |->
                     LET a == tx[((p - 1) \div Len(ty)) + 1]
                         b == ty[((p - 1) % Len(ty)) + 1]
                     IN  STerm(RMul(Num(a.n, a.d), Num(b.n, b.d)), a.r * b.r)])

SSub(x, y) == SAdd(x, SNeg(y))

\* the terms of x whose coefficient has the sign sg
SPart(x, sg) ==
    [n |-> IF sg * x.n > 0 THEN x.n ELSE 0,
     d |-> IF sg * x.n > 0 THEN x.d ELSE 1,
     s |-> "",
     irr |-> SelectSeq(x.irr, LAMBDA t : sg * t.n > 0)]

\* the sign of x: with P the positive terms and N the negated negative
\* ones (both positive numbers when not empty), x > 0 iff P*P > N*N
RECURSIVE SSign(_)
SSign(x) ==
    LET pos == SPart(x, 1)
        neg == SNeg(SPart(x, -1))
    IN  IF pos = SZero /\ neg = SZero THEN 0
        ELSE IF neg = SZero THEN 1
        ELSE IF pos = SZero THEN -1
        ELSE SSign(SSub(SMul(pos, pos), SMul(neg, neg)))

\* std(ddof=0) squared of a series of standardised cells without a missing one
SPopVar(zs) ==
    LET n == Len(zs)
        mean == SDiv(SSum(zs), Int2Num(n))
    IN  IF n = 0 THEN SNaN
        ELSE SDiv(SSum([i \in 1..n |-> SMul(SSub(zs[i], mean), SSub(zs[i], mean))]),
                  Int2Num(n))

(***************************************************************************)
(* src/preprocessing/kpi_scores.py                                         *)
(***************************************************************************)
OE_KPIS_HIGH_IS_BETTER == <<"uptime_percent", "tons_per_hour">>

OE_KPIS_LOW_IS_BETTER ==
    <<"cost_per_ton", "rework_rate_percent", "energy_kwh_per_ton",
      "water_m3_per_ton", "maintenance_cost_per_ton">>

SAFETY_KPIS_HIGH_IS_BETTER ==
    <<"safety_audits_passed_percent", "employees_competent_percent">>

SAFETY_KPIS_LOW_IS_BETTER == <<"ltifr", "trifr">>

\* the weight maps, in hundredths
OE_WEIGHTS ==
    [uptime_percent |-> Num(30, 100),
     tons_per_hour |-> Num(30, 100),
     cost_per_ton |-> Num(20, 100),
     energy_kwh_per_ton |-> Num(10, 100),
     rework_rate_percent |-> Num(5, 100),
     maintenance_cost_per_ton |-> Num(5, 100)]

SAFETY_WEIGHTS ==
    [ltifr |-> Num(40, 100),
     trifr |-> Num(30, 100),
     safety_audits_passed_percent |-> Num(20, 100),
     employees_competent_percent |-> Num(10, 100)]

\* weights.get(kpi, 0.0)
WeightOf(weights, kpi) ==
    IF kpi \in DOMAIN weights THEN weights[kpi] ELSE Int2Num(0)

\* a validation that stops at the first missing column
validate_kpi_columns_first_only(t) ==
    LET required == Range(OE_KPIS_HIGH_IS_BETTER) \cup Range(OE_KPIS_LOW_IS_BETTER)
                      \cup Range(SAFETY_KPIS_HIGH_IS_BETTER)
                      \cup Range(SAFETY_KPIS_LOW_IS_BETTER)
        missing == ({SITE_ID_COL} \cup required) \ Columns(t)
    IN  IF missing = {} THEN {}
        ELSE IF SITE_ID_COL \in missing THEN {SITE_ID_COL}
        ELSE {CHOOSE c \in missing : TRUE}

\* The names the ValueError of validate_kpi_columns lists
\* (sorted(set(missing))); the empty set: nothing is raised.
validate_kpi_columns(t) ==
    LET required == Range(OE_KPIS_HIGH_IS_BETTER) \cup Range(OE_KPIS_LOW_IS_BETTER)
                      \cup Range(SAFETY_KPIS_HIGH_IS_BETTER)
                      \cup Range(SAFETY_KPIS_LOW_IS_BETTER)
    IN  (IF SITE_ID_COL \notin Columns(t) THEN {SITE_ID_COL} ELSE {})
          \cup (required \ Columns(t))

aggregate_kpis_per_site(t) ==
    LET missing == validate_kpi_columns(t)
    IN  IF missing # {}
        THEN Raised("SchemaError", missing, <<"validate">>)
        ELSE Returned(GroupMean(t), <<"validate", "groupby">>)

\* the cells of column c, one per row
Series(t, c) == [i \in 1..Len(t.rows) |-> t.rows[i][c]]

\* s.std(ddof=0) squared: the population variance of the numbers in the
\* series, NaN when there is none
PopVar(ser) ==
    LET valid == SelectSeq(ser, IsNum)
        mean == MeanSkipNa(ser)
    IN  IF valid = <<>> THEN NaN
        ELSE RDivInt(RSum([i \in 1..Len(valid) |->
                             RMul(RSub(valid[i], mean), RSub(valid[i], mean))]),
                     Len(valid))

(***************************************************************************)
(* The mean of n copies of one value, as doubles compute it.  A double     *)
(* holds 53 significant bits; an integer of up to 57 bits is kept here as  *)
(* the pair <<hi, lo>> = hi * 2^26 + lo.  With M the 53-bit significand of *)
(* the value, the running sum is a multiple of M rounded to 53 bits after  *)
(* each addition (round half to even), and the mean is the sum divided by  *)
(* n, rounded the same way.                                                *)
(***************************************************************************)
Limb == 67108864          \* 2^26
Half53 == 134217728       \* 2^27: <<Half53, 0>> is 2^53

\* a * 2^t for the least t with a * 2^t >= b * 2^26 (0 < a < b * 2^26)
RECURSIVE ScaleUp(_, _)
ScaleUp(a, b) == IF a >= b * Limb THEN a ELSE ScaleUp(2 * a, b)

\* x rounded to a multiple of g (a power of two below 2^26), half to even;
\* `sticky` tells that the exact value lies above x
RoundToMultiple(x, g, sticky) ==
    LET r == x[2] % g
        down == <<x[1], x[2] - r>>
        up == IF x[2] - r + g = Limb THEN <<x[1] + 1, 0>> ELSE <<x[1], x[2] - r + g>>
        even == ((x[2] - r) \div g) % 2 = 0
    IN  IF 2 * r < g THEN down
        ELSE IF 2 * r > g \/ sticky THEN up
        ELSE IF even THEN down ELSE up

\* x rounded to 53 significant bits
Round53(x, sticky) ==
    IF x[1] < Half53 THEN (IF sticky THEN RoundToMultiple(<<x[1], x[2]>>, 1, FALSE) ELSE x)
    ELSE IF x[1] < 2 * Half53 THEN RoundToMultiple(x, 2, sticky)
    ELSE IF x[1] < 4 * Half53 THEN RoundToMultiple(x, 4, sticky)
    ELSE RoundToMultiple(x, 8, sticky)

\* x divided by the integer b (1 <= b <= 15), rounded to 53 significant bits
DivRound53(x, b) ==
    LET qhi == x[1] \div b
        rest == (x[1] % b) * Limb + x[2]
        qlo == rest \div b
        r == rest % b
    IN  IF qhi >= Half53 THEN Round53(<<qhi, qlo>>, r > 0)
        ELSE IF 2 * r > b \/ (2 * r = b /\ qlo % 2 = 1)
        THEN (IF qlo + 1 = Limb THEN <<qhi + 1, 0>> ELSE <<qhi, qlo + 1>>)
        ELSE <<qhi, qlo>>

\* the significand of the double nearest to a / b (0 < a / b < 2^26, b <= 15)
Significand(a, b) == DivRound53(<<ScaleUp(a, b), 0>>, b)

\* the sum of k copies of the significand M, rounded after each addition
RECURSIVE SumOfCopies(_, _)
SumOfCopies(M, k) ==
    IF k = 1 THEN M
    ELSE LET s == SumOfCopies(M, k - 1)
             lo == s[2] + M[2]
         IN  Round53(<<s[1] + M[1] + (lo \div Limb), lo % Limb>>, FALSE)

\* the sign of (mean of n copies of v, in doubles) - v
MeanError(v, n) ==
    IF v.n = 0 \/ v.d = 1 \/ n <= 2
    THEN 0     \* sums of small integers, v + v and (v + v) / 2 are exact
    ELSE LET M == Significand(Abs(v.n), v.d)
             mean == DivRound53(SumOfCopies(M, n), n)
             sg == IF v.n < 0 THEN -1 ELSE 1
         IN  IF mean = M THEN 0
             ELSE IF mean[1] > M[1] \/ (mean[1] = M[1] /\ mean[2] > M[2]) THEN sg
             ELSE -sg

\* the z-scores of a series with the population standard deviation, and
\* zeros where the values are all equal
ZScores(ser) ==
    LET mean == MeanSkipNa(ser)
        var == PopVar(ser)
    IN  IF IsNaN(var) \/ var.n = 0
        THEN [i \in 1..Len(ser) |-> SZero]
        ELSE [i \in 1..Len(ser) |->
                IF IsNum(ser[i]) THEN DivBySqrt(RSub(ser[i], mean), var) ELSE SNaN]

\* a standardisation centred on the first value instead of the mean
_standardize_series_from_first(ser) ==
    LET valid == SelectSeq(ser, IsNum)
        var == PopVar(ser)
    IN  IF IsNaN(var) \/ var.n = 0
        THEN [i \in 1..Len(ser) |-> SZero]
        ELSE [i \in 1..Len(ser) |->
                IF IsNum(ser[i]) THEN DivBySqrt(RSub(ser[i], valid[1]), var) ELSE SNaN]

\* (s - mean) / std, or zeros when std == 0 or std is NaN.  Where the
\* values differ, the doubles follow the exact z-scores up to rounding.
\* Where the values are all equal to v, std is 0 only if the computed mean
\* is v; when it is off by a unit, std is that distance and every
\* z-score is (v - mean) / |v - mean|.
_standardize_series(ser) ==
    LET valid == SelectSeq(ser, IsNum)
        mean == MeanSkipNa(ser)
        var == PopVar(ser)
        off == IF valid # <<>> /\ var.n = 0 THEN MeanError(valid[1], Len(valid)) ELSE 0
    IN  IF IsNaN(var) \/ (var.n = 0 /\ off = 0)
        THEN [i \in 1..Len(ser) |-> SZero]
        ELSE IF var.n = 0
        THEN [i \in 1..Len(ser) |->
                IF IsNum(ser[i]) THEN SRat(Int2Num(-off)) ELSE SNaN]
        ELSE [i \in 1..Len(ser) |->
                IF IsNum(ser[i]) THEN DivBySqrt(RSub(ser[i], mean), var) ELSE SNaN]

\* components: KPI -> standardised series; a low-is-better KPI sign-flipped
Components(t, high, low) ==
    [k \in Range(high \o low) |->
       IF k \in Range(high) THEN _standardize_series(Series(t, k))
       ELSE LET z == _standardize_series(Series(t, k))
            IN  [i \in 1..Len(t.rows) |-> SNeg(z[i])]]

\* pd.DataFrame(components).mean(axis=1)
SimpleIndex(kpis, components, n) ==
    [i \in 1..n |-> SMeanSkipNa([j \in 1..Len(kpis) |-> components[kpis[j]][i]])]

\* a weighted index whose loop does not skip the KPIs of weight zero
WeightedIndex_no_skip(kpis, components, weights, n) ==
    LET total_weight == RSum([j \in 1..Len(kpis) |-> WeightOf(weights, kpis[j])])
        weighted_sum(i) ==
            SSum([j \in 1..Len(kpis) |->
                    SScale(components[kpis[j]][i], WeightOf(weights, kpis[j]))])
    IN  [i \in 1..n |->
           IF total_weight.n = 0 THEN weighted_sum(i)
           ELSE SDiv(weighted_sum(i), total_weight)]

\* a weighted index that is never divided by the total weight
WeightedIndex_unnormalised(kpis, components, weights, n) ==
    LET applied == SelectSeq(kpis, LAMBDA k : WeightOf(weights, k).n # 0)
    IN  [i \in 1..n |->
           SSum([j \in 1..Len(applied) |->
                   SScale(components[applied[j]][i], WeightOf(weights, applied[j]))])]

\* the weighted sum over the KPIs with a non-zero weight, divided by the
\* total of these weights unless that total is zero
WeightedIndex(kpis, components, weights, n) ==
    LET applied == SelectSeq(kpis, LAMBDA k : WeightOf(weights, k).n # 0)
        total_weight == RSum([j \in 1..Len(applied) |-> WeightOf(weights, applied[j])])
        weighted_sum(i) ==
            SSum([j \in 1..Len(applied) |->
                    SScale(components[applied[j]][i], WeightOf(weights, applied[j]))])
    IN  [i \in 1..n |->
           IF total_weight.n = 0 THEN weighted_sum(i)
           ELSE SDiv(weighted_sum(i), total_weight)]

\* a dispatch in which every method but "weighted" means "simple"
Combine_unknown_is_simple(kpis, components, weights, n, m) ==
    IF m = "weighted"
    THEN [err |-> "none", names |-> {},
          series |-> WeightedIndex(kpis, components, weights, n)]
    ELSE [err |-> "none", names |-> {}, series |-> SimpleIndex(kpis, components, n)]

\* the dispatch on `method`
Combine(kpis, components, weights, n, m) ==
    IF m = "simple"
    THEN [err |-> "none", names |-> {}, series |-> SimpleIndex(kpis, components, n)]
    ELSE IF m = "weighted"
    THEN [err |-> "none", names |-> {},
          series |-> WeightedIndex(kpis, components, weights, n)]
    ELSE [err |-> "UnknownMethodError", names |-> {}, series |-> <<>>]

\* A formative index of the table (the body shared by compute_oe_hard and
\* compute_safety_perf): the series of the index, or the exception.  A KPI
\* that is no column fails the component loop with a KeyError, before the
\* method is looked at.
compute_index(t, high, low, weights, m) ==
    LET kpis == high \o low
        absent == SelectSeq(kpis, LAMBDA k : k \notin Columns(t))
    IN  IF absent # <<>>
        THEN [err |-> "KeyError", names |-> {Head(absent)}, series |-> <<>>]
        ELSE Combine(kpis, Components(t, high, low), weights, Len(t.rows), m)

compute_oe_hard(t, m) ==
    compute_index(t, OE_KPIS_HIGH_IS_BETTER, OE_KPIS_LOW_IS_BETTER,
                  weight_maps.OE_WEIGHTS, m)

compute_safety_perf(t, m) ==
    compute_index(t, SAFETY_KPIS_HIGH_IS_BETTER, SAFETY_KPIS_LOW_IS_BETTER,
                  weight_maps.SAFETY_WEIGHTS, m)

\* t with the column `name` holding `series` (appended when new)
WithColumn(t, name, series) ==
    [cols |-> IF name \in Columns(t) THEN t.cols ELSE Append(t.cols, name),
     obj  |-> t.obj \ {name},
     rows |-> [i \in 1..Len(t.rows) |->
                 [c \in Columns(t) \cup {name} |->
                    IF c = name THEN series[i] ELSE t.rows[i][c]]]]

\* the last step of build_site_kpi_table: SAFETY_PERF appended to the
\* table that holds OE_HARD
WithSafety(agg, with_oe, safety) ==
    IF safety.err # "none"
    THEN Raised(safety.err, safety.names, agg.steps \o <<"oe_hard", "safety_perf">>)
    ELSE Returned(WithColumn(with_oe, "SAFETY_PERF", safety.series),
                  agg.steps \o <<"oe_hard", "safety_perf">>)

\* compute_safety_perf on the table that holds OE_HARD
OnWithOe(agg, with_oe, m) == WithSafety(agg, with_oe, compute_safety_perf(with_oe, m))

\* OE_HARD appended to the aggregated table
WithOe(agg, oe, m) ==
    IF oe.err # "none" THEN Raised(oe.err, oe.names, agg.steps \o <<"oe_hard">>)
    ELSE OnWithOe(agg, WithColumn(agg.table, "OE_HARD", oe.series), m)

\* compute_oe_hard on the aggregated table
OnAggregated(agg, m) ==
    IF agg.err # "none" THEN agg ELSE WithOe(agg, compute_oe_hard(agg.table, m), m)

\* The body of build_site_kpi_table: aggregate to site level, then append
\* OE_HARD and SAFETY_PERF, each computed with method m.
BuildSiteKpiTable(kpi_df, m) == OnAggregated(aggregate_kpis_per_site(kpi_df), m)

\* a build that combines by "simple" whenever an outcome is still held
build_site_kpi_table_simple_when_repeated(kpi_df, m) ==
    BuildSiteKpiTable(kpi_df, IF op = "none" THEN m ELSE "simple")

build_site_kpi_table(kpi_df, m) == BuildSiteKpiTable(kpi_df, m)

(***************************************************************************)
(* main.py                                                                 *)
(***************************************************************************)
\* the rows of pd.merge(left, right, on="site_id", how="left"): a left row
\* without a partner is kept, with missing values in the right columns
LeftJoined(left, right, names) ==
    Flatten([i \in DOMAIN left.rows |->
       LET partners == SelectSeq(right.rows,
                          LAMBDA r : r[SITE_ID_COL] = left.rows[i][SITE_ID_COL])
       IN  IF partners = <<>>
           THEN <<[c \in Range(names) |->
                     IF c \in Columns(left) THEN left.rows[i][c] ELSE NaN]>>
           ELSE [j \in DOMAIN partners |->
                   [c \in Range(names) |->
                      IF c \in Columns(left) THEN left.rows[i][c] ELSE partners[j][c]]]])

\* the rows of the inner join: for each left row in turn, one row for each
\* right row of the same site_id, in the order of the right table
InnerJoined(left, right, names) ==
    Flatten([i \in DOMAIN left.rows |->
       LET partners == SelectSeq(right.rows,
                          LAMBDA r : r[SITE_ID_COL] = left.rows[i][SITE_ID_COL])
       IN  [j \in DOMAIN partners |->
              [c \in Range(names) |->
                 IF c \in Columns(left) THEN left.rows[i][c] ELSE partners[j][c]]]])

\* the columns of the merged table: those of the left table, then those of
\* the right table but the key (the two tables share no other column: the
\* left one holds construct codes, the right one KPI names and indices)
MergedColumns(left, right) == left.cols \o SelectSeq(right.cols, LAMBDA c : c # SITE_ID_COL)

merge_left(left, right) ==
    [cols |-> MergedColumns(left, right),
     obj  |-> left.obj \cup right.obj,
     rows |-> LeftJoined(left, right, MergedColumns(left, right))]

\* pd.merge(left, right, on="site_id", how="inner")
merge(left, right) ==
    [cols |-> MergedColumns(left, right),
     obj  |-> left.obj \cup right.obj,
     rows |-> InnerJoined(left, right, MergedColumns(left, right))]

\* The real-data branch of main on the survey and KPI tables loaded: the
\* exception of a builder, or the two site tables and their merge.
Merged(site_constructs, site_kpis) ==
    [err |-> "none", names |-> {},
     table |-> merge(site_constructs, site_kpis),
     steps |-> <<"constructs", "kpis", "merge">>,
     reports |-> <<[site_constructs |-> site_constructs, site_kpis |-> site_kpis]>>]
OnSiteKpis(site_constructs, k) ==
    IF k.err # "none"
    THEN [err |-> k.err, names |-> k.names, table |-> NoTable,
          steps |-> <<"constructs", "kpis">>, reports |-> <<>>]
    ELSE Merged(site_constructs, k.table)
OnSiteConstructs(c, kpi_df, m) ==
    IF c.err # "none"
    THEN [err |-> c.err, names |-> c.names, table |-> NoTable,
          steps |-> <<"constructs">>, reports |-> <<>>]
    ELSE OnSiteKpis(c.table, build_site_kpi_table(kpi_df, m))
main(survey_df, kpi_df, m) ==
    OnSiteConstructs(build_site_construct_table(survey_df), kpi_df, m)

(***************************************************************************)
(* src/analysis/structural_paths.py                                        *)
(***************************************************************************)
\* the path_specs dictionary, in its insertion order
path_specs ==
    <<[target |-> "OE", predictors |-> <<"MAINT", "COMP", "SUPINT">>],
      [target |-> "EP", predictors |-> <<"OE">>],
      [target |-> "OE_HARD",
       predictors |-> <<"MAINT", "SUPINT", "COMP", "GPUR", "GOPS", "GLOG", "GTRN", "GCOL">>],
      [target |-> "SAFETY_PERF", predictors |-> <<"GTRN", "MAINT", "COMP">>]>>

\* pd.concat([y, X], axis=1).dropna(): the rows in which the target and
\* every predictor are numbers
CompleteCases(y, X) ==
    {i \in DOMAIN y : IsNum(y[i]) /\ \A c \in Columns(X) : IsNum(X.rows[i][c])}

\* the complete rows, in the order of the table
KeptRows(y, X) == SelectSeq([i \in DOMAIN y |-> i], LAMBDA i : i \in CompleteCases(y, X))

RDiv(x, y) == Num(x.n * y.d, x.d * y.n)

\* the sequence s as a tuple of values (TLC then computes each element
\* once, not at every reference)
AsTuple(s) == s \o <<>>

Dot(u, v) == RSum(AsTuple([k \in DOMAIN u |-> RMul(u[k], v[k])]))
MatVec(A, v) == AsTuple([i \in DOMAIN A |-> Dot(A[i], v)])
Transposed(A, width) == AsTuple([k \in 1..width |-> AsTuple([i \in DOMAIN A |-> A[i][k]])])
Gram(A) == AsTuple([i \in DOMAIN A |-> AsTuple([j \in DOMAIN A |-> Dot(A[i], A[j])])])

\* row r divided by its entry in column col, and that multiple of it taken
\* from every other row
PivotOn(rows, r, col, scaled) ==
    AsTuple([i \in DOMAIN rows |->
       IF i = r THEN scaled
       ELSE AsTuple([j \in DOMAIN scaled |->
                       RSub(rows[i][j], RMul(rows[i][col], scaled[j]))])])

\* Gauss-Jordan elimination of the rows of a square system with its right
\* side as last column: pivots[c] is the row that holds the pivot of
\* column c, 0 for a column without one
RECURSIVE Eliminate(_, _, _)
EliminateOn(rows, col, pivots, r) ==
    Eliminate(PivotOn(rows, r, col,
                      AsTuple([j \in DOMAIN rows[r] |-> RDiv(rows[r][j], rows[r][col])])),
              col + 1, Append(pivots, r))
FirstOf(S) == CHOOSE i \in S : \A j \in S : i <= j
EliminateIn(rows, col, pivots, cand) ==
    IF cand = {} THEN Eliminate(rows, col + 1, Append(pivots, 0))
    ELSE EliminateOn(rows, col, pivots, FirstOf(cand))
Eliminate(rows, col, pivots) ==
    IF col > Len(rows) THEN [rows |-> rows, pivots |-> pivots]
    ELSE EliminateIn(rows, col, pivots,
                     {i \in DOMAIN rows : i \notin Range(pivots) /\ rows[i][col].n # 0})

\* a solution of the consistent system M x = b, 0 in the free unknowns
Solved(e, width) ==
    AsTuple([c \in 1..width |->
               IF e.pivots[c] = 0 THEN Int2Num(0) ELSE e.rows[e.pivots[c]][width + 1]])
Solve(M, b) ==
    Solved(Eliminate(AsTuple([i \in DOMAIN M |-> Append(M[i], b[i])]), 1, <<>>), Len(M))

\* np.linalg.lstsq(A, y, rcond=None)[0]: the least-squares solution of
\* smallest norm.  A solution b of the normal equations is carried into the
\* row space of A: coef = A^T w with (A A^T) w = A b.  Without a row the
\* solution is zero.
MinNorm(A, At, b) == MatVec(At, Solve(Gram(A), MatVec(A, b)))
LeastSquares(A, At, y) == MinNorm(A, At, Solve(Gram(At), MatVec(At, y)))

\* a design matrix without the column of ones
lstsq_no_intercept(A, y, width) ==
    IF A = <<>> THEN [k \in 1..width |-> Int2Num(0)]
    ELSE LeastSquares(AsTuple([i \in DOMAIN A |-> <<Int2Num(0)>> \o Tail(A[i])]),
                      Transposed(AsTuple([i \in DOMAIN A |-> <<Int2Num(0)>> \o Tail(A[i])]),
                                 width),
                      y)

lstsq(A, y, width) ==
    IF A = <<>> THEN [k \in 1..width |-> Int2Num(0)]
    ELSE LeastSquares(A, Transposed(A, width), y)

\* sum(v ** 2)
SumSq(v) == RSum(AsTuple([i \in DOMAIN v |-> RMul(v[i], v[i])]))

\* r2 = 1 - ss_res / ss_tot if ss_tot > 0 else nan.  ss_tot is the sum of
\* the squares of y - y.mean(): for a target that varies, the doubles
\* follow the exact sums; for a target whose values are all v, it is 0 only
\* if the computed mean is v.  When that mean is off by a unit, ss_tot is n
\* squared units and ss_res is 0 or, when the fitted value of the first row
\* is off by a unit too (`ulp` 1), one squared unit.
RSquared(ss_res, ss_tot, y, ulp) ==
    IF ss_tot.n > 0 THEN RSub(Int2Num(1), RDiv(ss_res, ss_tot))
    ELSE IF y = <<>> \/ MeanError(y[1], Len(y)) = 0 THEN NaN
    ELSE IF ulp = 0 THEN Int2Num(1)
    ELSE RSub(Int2Num(1), Num(1, Len(y)))

\* the dictionary returned for the coefficient vector coef
Fitted(X, y, A, coef, ulp) ==
    [intercept |-> coef[1],
     coefficients |-> [j \in DOMAIN X.cols |-> [name |-> X.cols[j], value |-> coef[j + 1]]],
     r2 |-> RSquared(SumSq(AsTuple([i \in DOMAIN y |-> RSub(y[i], Dot(A[i], coef))])),
                     SumSq(AsTuple([i \in DOMAIN y |-> RSub(y[i], MeanSkipNa(y))])),
                     y, ulp),
     n |-> Len(y)]

\* the fit on the kept target values y and the design matrix A
FitOn(X, y, A, ulp) == Fitted(X, y, A, lstsq(A, y, Len(X.cols) + 1), ulp)

\* the fit on the rows `kept`
FitRows(y, X, kept, ulp) ==
    FitOn(X, AsTuple([i \in DOMAIN kept |-> y[kept[i]]]),
          AsTuple([i \in DOMAIN kept |->
                     <<Int2Num(1)>> \o [j \in DOMAIN X.cols |-> X.rows[kept[i]][X.cols[j]]]]),
          ulp)

\* a fit that reports the number of rows passed as n
_ols_regression_n_of_input(y, X, ulp) ==
    [FitRows(y, X, KeptRows(y, X), ulp) EXCEPT !.n = Len(y)]

_ols_regression(y, X, ulp) == FitRows(y, X, KeptRows(y, X), ulp)

\* a loop that fits each target on those of its predictors that are columns
RECURSIVE RunPathsOnPresent(_, _, _, _)
RunPathsOnPresent(t, specs, printed, ulp) ==
    IF specs = <<>> THEN [err |-> "none", names |-> {}, reports |-> printed]
    ELSE LET target == Head(specs).target
             predictors == Filter(Head(specs).predictors, Columns(t))
         IN  IF target \notin Columns(t)
             THEN [err |-> "KeyError", names |-> {target}, reports |-> printed]
             ELSE RunPathsOnPresent(t, Tail(specs),
                     Append(printed,
                            [target |-> target, predictors |-> predictors,
                             results |-> _ols_regression(Series(t, target),
                                                         Project(t, predictors), ulp)]),
                     ulp)

run_structural_paths_on_present(t, ulp) == RunPathsOnPresent(t, path_specs, <<>>, ulp)

\* The loop over the path specs: df[target] and df[predictors] raise a
\* KeyError for a column that is absent, after the results of the specs
\* before have been printed.
RECURSIVE RunPaths(_, _, _, _)
RunPaths(t, specs, printed, ulp) ==
    IF specs = <<>> THEN [err |-> "none", names |-> {}, reports |-> printed]
    ELSE LET target == Head(specs).target
             predictors == Head(specs).predictors
         IN  IF target \notin Columns(t)
             THEN [err |-> "KeyError", names |-> {target}, reports |-> printed]
             ELSE IF ~(Range(predictors) \subseteq Columns(t))
             THEN [err |-> "KeyError", names |-> Range(predictors) \ Columns(t),
                   reports |-> printed]
             ELSE RunPaths(t, Tail(specs),
                     Append(printed,
                            [target |-> target, predictors |-> predictors,
                             results |-> _ols_regression(Series(t, target),
                                                         Project(t, predictors), ulp)]),
                     ulp)

\* a loop in which the fitted values of a target replace its column for
\* the specs that follow
FittedValues(t, target, predictors, res) ==
    [t EXCEPT !.rows =
        [i \in DOMAIN t.rows |->
           IF i \in CompleteCases(Series(t, target), Project(t, predictors))
           THEN [t.rows[i] EXCEPT ![target] =
                    RAdd(res.intercept,
                         RSum(AsTuple([j \in DOMAIN predictors |->
                                 RMul(res.coefficients[j].value,
                                      t.rows[i][predictors[j]])])))]
           ELSE t.rows[i]]]
RECURSIVE RunPathsFitted(_, _, _, _)
RunPathsFittedOn(t, specs, printed, ulp, res) ==
    RunPathsFitted(FittedValues(t, Head(specs).target, Head(specs).predictors, res),
                   Tail(specs),
                   Append(printed,
                          [target |-> Head(specs).target,
                           predictors |-> Head(specs).predictors, results |-> res]),
                   ulp)
RunPathsFitted(t, specs, printed, ulp) ==
    IF specs = <<>> THEN [err |-> "none", names |-> {}, reports |-> printed]
    ELSE IF Head(specs).target \notin Columns(t)
    THEN [err |-> "KeyError", names |-> {Head(specs).target}, reports |-> printed]
    ELSE IF ~(Range(Head(specs).predictors) \subseteq Columns(t))
    THEN [err |-> "KeyError", names |-> Range(Head(specs).predictors) \ Columns(t),
          reports |-> printed]
    ELSE RunPathsFittedOn(t, specs, printed, ulp,
                          _ols_regression(Series(t, Head(specs).target),
                                          Project(t, Head(specs).predictors), ulp))
run_structural_paths_fitted(t, ulp) == RunPathsFitted(t, path_specs, <<>>, ulp)

run_structural_paths(t, ulp) == RunPaths(t, path_specs, <<>>, ulp)

(***************************************************************************)
(* src/analysis/outer_model.py                                             *)
(***************************************************************************)
\* var(ddof=1) of a series without missing cells: NaN below two values
SampleVar(ser) ==
    IF Len(ser) < 2 THEN NaN
    ELSE LET mean == RDivInt(RSum(ser), Len(ser))
         IN  RDivInt(RSum([i \in 1..Len(ser) |->
                             RMul(RSub(ser[i], mean), RSub(ser[i], mean))]),
                     Len(ser) - 1)

\* X.dropna(): the rows without a missing cell
DropNa(X) ==
    [X EXCEPT !.rows = SelectSeq(X.rows, LAMBDA r : \A c \in Columns(X) : IsNum(r[c]))]

\* alpha without the factor k / (k - 1)
_cronbach_alpha_uncorrected(X) ==
    LET k == Len(X.cols)
        item_vars == [j \in 1..k |-> SampleVar(Series(X, X.cols[j]))]
        total_score == [i \in 1..Len(X.rows) |-> RSum(RowCells(X.rows[i], X.cols))]
        total_var == SampleVar(total_score)
    IN  IF k < 2 THEN NaN
        ELSE IF IsNaN(total_var) \/ total_var.n = 0 THEN NaN
        ELSE RSub(Int2Num(1), RMul(RSum(item_vars), Num(total_var.d, total_var.n)))

_cronbach_alpha(X) ==
    LET k == Len(X.cols)
        item_vars == [j \in 1..k |-> SampleVar(Series(X, X.cols[j]))]
        total_score == [i \in 1..Len(X.rows) |-> RSum(RowCells(X.rows[i], X.cols))]
        total_var == SampleVar(total_score)
    IN  IF k < 2 THEN NaN
        ELSE IF IsNaN(total_var) \/ total_var.n = 0 THEN NaN
        ELSE RMul(Num(k, k - 1),
                  RSub(Int2Num(1),
                       RMul(RSum(item_vars), Num(total_var.d, total_var.n))))

(***************************************************************************)
(* A loading, CR or AVE: the quotient p / q of two standardised values      *)
(* (root FALSE) or p / sqrt(q) (root TRUE), q > 0; QNaN is the missing      *)
(* value.                                                                   *)
(***************************************************************************)
QNaN == [p |-> SNaN, q |-> SNaN, root |-> FALSE]

\* column c of Z = ((X - X.mean()) / X.std(ddof=0)).fillna(0.0): a column
\* without variance is 0 / 0 in every row and is filled with zeros
Standardized(X, c) ==
    LET ser == Series(X, c)
        mean == MeanSkipNa(ser)
        var == PopVar(ser)
    IN  [i \in 1..Len(ser) |->
           IF var.n = 0 THEN SZero ELSE DivBySqrt(RSub(ser[i], mean), var)]

RECURSIVE IsPowerOfTwo(_)
IsPowerOfTwo(d) == d = 1 \/ (d > 1 /\ d % 2 = 0 /\ IsPowerOfTwo(d \div 2))

\* a double holds the value exactly (values of the size of a Likert answer)
Representable(x) == x.d > 0 /\ x.irr = <<>> /\ IsPowerOfTwo(x.d)

\* composite = Z.mean(axis=1), as the doubles hold it up to a shift and a
\* positive factor.  Where the exact row means differ, rounding is far
\* below their differences and the exact means stand for the doubles.
\* Where the exact row means are all equal and some standardised cell is
\* not representable, the doubles are equal only if the rounding errors of
\* the rows cancel: `ulp` is the row whose double is off by one unit (0 or
\* a row beyond the last: the errors cancel).
Composite(Z, n, ulp) ==
    LET k == Len(Z)
        exact == [i \in 1..n |-> SDiv(SSum([j \in 1..k |-> Z[j][i]]), Int2Num(k))]
        rounded == \E j \in 1..k : \E i \in 1..n : ~Representable(Z[j][i])
    IN  IF n > 0 /\ SPopVar(exact) = SZero /\ rounded /\ ulp \in 1..n
        THEN [i \in 1..n |-> IF i = ulp THEN SRat(Int2Num(1)) ELSE SZero]
        ELSE exact

\* x.corr(y) for two series with variance: cov(x, y) / sqrt(var(x) * var(y))
CorrOf(x, y) ==
    LET n == Len(x)
        mx == SDiv(SSum(x), Int2Num(n))
        my == SDiv(SSum(y), Int2Num(n))
        sxy == SSum([i \in 1..n |-> SMul(SSub(x[i], mx), SSub(y[i], my))])
        sxx == SSum([i \in 1..n |-> SMul(SSub(x[i], mx), SSub(x[i], mx))])
        syy == SSum([i \in 1..n |-> SMul(SSub(y[i], my), SSub(y[i], my))])
    IN  [p |-> sxy, q |-> SMul(sxx, syy), root |-> TRUE]

\* Series.corr: NaN for two series without a value
Pearson(x, y) == IF Len(x) = 0 THEN QNaN ELSE CorrOf(x, y)

\* a guard that lets every pair of series through
Degenerate_never(x, composite) == FALSE

\* x.std(ddof=0) == 0 or composite.std(ddof=0) == 0
Degenerate(x, composite) == SPopVar(x) = SZero \/ SPopVar(composite) = SZero

\* Z = ((X - X.mean()) / X.std(ddof=0)).fillna(0.0), column by column
StandardizedColumns(X) == [j \in 1..Len(X.cols) |-> Standardized(X, X.cols[j])]

\* the loading of each column of Z on the composite, QNaN where the guard
\* finds no variance
Loadings(Z, composite) ==
    [j \in 1..Len(Z) |->
       IF Degenerate(Z[j], composite) THEN QNaN ELSE Pearson(Z[j], composite)]

\* cr and ave from the loadings that are numbers.  These have one squared
\* denominator q (every standardised column with variance has variance
\* 1), so their sum is sum / sqrt(q) and the sum of their squares is
\* squares / q; num, theta.sum() and den are kept times q.
Reliability(loadings, q, count, sum, squares) ==
    LET num == SMul(sum, sum)
        theta == SSub(SScale(q, Int2Num(count)), squares)
        den == SAdd(num, theta)
    IN  [loadings |-> loadings,
         cr |-> IF den = SZero THEN QNaN ELSE [p |-> num, q |-> den, root |-> FALSE],
         ave |-> [p |-> squares, q |-> SScale(q, Int2Num(count)), root |-> FALSE]]

\* the result for the loadings l, of which lambdas are the numbers
LoadingsCrAve(loadings, lambdas) ==
    IF lambdas = <<>> THEN [loadings |-> loadings, cr |-> QNaN, ave |-> QNaN]
    ELSE Reliability(loadings, lambdas[1].q, Len(lambdas),
                     SSum([j \in 1..Len(lambdas) |-> lambdas[j].p]),
                     SSum([j \in 1..Len(lambdas) |-> SMul(lambdas[j].p, lambdas[j].p)]))

\* a result in which one loading that is no number makes cr and ave no
\* numbers (lambdas built without dropping NaN)
NamedLoadings_keep_nan(X, l) ==
    LET named == [j \in 1..Len(X.cols) |-> [name |-> X.cols[j], value |-> l[j]]]
    IN  IF \E j \in DOMAIN l : l[j] = QNaN
        THEN [loadings |-> named, cr |-> QNaN, ave |-> QNaN]
        ELSE LoadingsCrAve(named, l)

\* the loadings l under the names of their columns
NamedLoadings(X, l) ==
    LoadingsCrAve([j \in 1..Len(X.cols) |-> [name |-> X.cols[j], value |-> l[j]]],
                  SelectSeq(l, LAMBDA v : v # QNaN))

\* the composite of the standardised columns Z and the loadings on it
OnComposite(X, Z, ulp) == NamedLoadings(X, Loadings(Z, Composite(Z, Len(X.rows), ulp)))

\* loadings, cr and ave of the indicator table X (no missing cell)
_compute_loadings_cr_ave(X, ulp) ==
    IF Len(X.cols) = 0 THEN [loadings |-> <<>>, cr |-> QNaN, ave |-> QNaN]
    ELSE OnComposite(X, StandardizedColumns(X), ulp)

\* the construct_codes argument left out
None == <<"None">>

\* the row of a construct: its code, the indicators used, the complete
\* rows, alpha, cr, ave and the loading of each indicator
ResultRow(code, X, stats) ==
    [construct |-> code,
     n_indicators |-> Len(X.cols),
     n_obs |-> Len(X.rows),
     alpha |-> _cronbach_alpha(X),
     cr |-> stats.cr,
     ave |-> stats.ave,
     loadings |-> stats.loadings]

OuterRow(code, X, ulp) == ResultRow(code, X, _compute_loadings_cr_ave(X, ulp))

\* a test that lets a construct with one indicator column through
Skipped_below_one(indicator_cols, X) == Len(indicator_cols) < 1 \/ X.rows = <<>>

\* the construct is left out: fewer than 2 indicator columns, or X.empty
Skipped(indicator_cols, X) == Len(indicator_cols) < 2 \/ X.rows = <<>>

\* a loop that skips a code the registry does not hold
RECURSIVE OuterRowsSkipUnknown(_, _, _, _)
OuterRowsSkipUnknown(t, codes, results, ulp) ==
    IF codes = <<>> THEN [err |-> "none", names |-> {}, reports |-> results]
    ELSE IF Head(codes) \notin DOMAIN CONSTRUCTS
    THEN OuterRowsSkipUnknown(t, Tail(codes), results, ulp)
    ELSE LET code == Head(codes)
             indicator_cols == Filter(CONSTRUCTS[code], Columns(t))
             X == DropNa(Project(t, indicator_cols))
         IN  IF Skipped(indicator_cols, X)
             THEN OuterRowsSkipUnknown(t, Tail(codes), results, ulp)
             ELSE OuterRowsSkipUnknown(t, Tail(codes),
                                       Append(results, OuterRow(code, X, ulp)), ulp)

compute_outer_model_skip_unknown(t, codes, ulp) ==
    OuterRowsSkipUnknown(t, IF codes = None THEN CONSTRUCTS_keys ELSE codes, <<>>, ulp)

\* The loop over the requested codes: CONSTRUCTS[code] raises a KeyError
\* for a code the registry does not hold, and the rows collected so far are
\* lost; a construct with fewer than 2 indicator columns or without a
\* complete row is left out.
RECURSIVE OuterRows(_, _, _, _)
OuterRows(t, codes, results, ulp) ==
    IF codes = <<>> THEN [err |-> "none", names |-> {}, reports |-> results]
    ELSE IF Head(codes) \notin DOMAIN CONSTRUCTS
    THEN [err |-> "KeyError", names |-> {Head(codes)}, reports |-> <<>>]
    ELSE LET code == Head(codes)
             indicator_cols == Filter(CONSTRUCTS[code], Columns(t))
             X == DropNa(Project(t, indicator_cols))
         IN  IF Skipped(indicator_cols, X)
             THEN OuterRows(t, Tail(codes), results, ulp)
             ELSE OuterRows(t, Tail(codes), Append(results, OuterRow(code, X, ulp)), ulp)

compute_outer_model(t, codes, ulp) ==
    OuterRows(t, IF codes = None THEN CONSTRUCTS_keys ELSE codes, <<>>, ulp)

(***************************************************************************)
(* The tables the calls are given.                                         *)
(***************************************************************************)
\* the header of a survey file: site_id, then the indicators as configured
SurveyColumns == <<SITE_ID_COL>> \o Flatten([i \in 1..Len(SourceKeys) |-> CONSTRUCTS[SourceKeys[i]]])

\* a row holding the same number v under every column but site_id
UniformRow(cols, site, v) ==
    [c \in Range(cols) |-> IF c = SITE_ID_COL THEN site ELSE Int2Num(v)]

Likert == LIKERT_MIN..LIKERT_MAX
\* the values enumerated in a cell: two Likert answers and the missing value
DataVals == {Int2Num(v) : v \in {2, 4} \cap Likert} \cup {NaN}
DataSites == {Str("A"), Str("B"), NaN}

\* survey tables from which up to MaxAbsent columns are absent
SurveySchemaFamily ==
    {[cols |-> Filter(SurveyColumns, Range(SurveyColumns) \ M),
      obj  |-> {SITE_ID_COL} \ M,
      rows |-> <<UniformRow(Filter(SurveyColumns, Range(SurveyColumns) \ M), Str("A"), 3)>>]
       : M \in SubsetsUpTo(Range(SurveyColumns), MaxAbsent)}

\* complete survey tables with an extra numeric column and up to MaxRows
\* respondents whose site and first two answers are enumerated
SurveyDataColumns == SurveyColumns \o <<"respondent_age">>
SurveyDataRows ==
    {[UniformRow(SurveyDataColumns, site, 3) EXCEPT !["GPUR_1"] = a, !["GPUR_2"] = b]
       : site \in DataSites, a \in DataVals, b \in DataVals \ {Int2Num(2)}}
SurveyDataFamily ==
    {[cols |-> SurveyDataColumns, obj |-> {SITE_ID_COL}, rows |-> rows]
       : rows \in SeqsUpTo(SurveyDataRows, MaxRows)}

\* complete survey tables in another column order, or with an indicator
\* column of object dtype (a free-text answer in it)
SurveyLayoutFamily ==
    {[cols |-> cols, obj |-> {SITE_ID_COL} \cup O,
      rows |-> <<[c \in Range(cols) |->
                   IF c = SITE_ID_COL THEN Str("B")
                   ELSE IF c \in O THEN Str("n/a") ELSE Int2Num(4)],
                 UniformRow(cols, Str("A"), 2)>>]
       : cols \in {SurveyColumns, Reverse(SurveyColumns)}, O \in {{}, {"GOPS_1"}}}

SurveyInputs == SurveySchemaFamily \cup SurveyDataFamily \cup SurveyLayoutFamily

\* the number of an indicator within its construct (3 for "GLOG_3")
ItemNo(c) ==
    CHOOSE i \in 1..LIKERT_MAX :
        \E code \in DOMAIN CONSTRUCTS :
            i \in DOMAIN CONSTRUCTS[code] /\ CONSTRUCTS[code][i] = c

\* two sites whose indicator means differ from column to column
PatternRows(cols) ==
    <<[c \in Range(cols) |-> IF c = SITE_ID_COL THEN Str("A") ELSE Int2Num(ItemNo(c))],
      [c \in Range(cols) |-> IF c = SITE_ID_COL THEN Str("B")
                                ELSE Int2Num(LIKERT_MAX + 1 - ItemNo(c))]>>

\* indicator tables holding site_id and at most MaxPresent indicators
MeansPresenceFamily ==
    {[cols |-> Filter(SurveyColumns, {SITE_ID_COL} \cup P),
      obj  |-> {SITE_ID_COL},
      rows |-> PatternRows(Filter(SurveyColumns, {SITE_ID_COL} \cup P))]
       : P \in SubsetsUpTo(Range(SurveyColumns) \ {SITE_ID_COL}, MaxPresent)}

\* indicator tables of up to MaxRows sites with two enumerated indicators
\* of one construct and one indicator of another
MeansDataColumns == <<SITE_ID_COL, "GPUR_1", "GPUR_2", "GOPS_1">>
MeansDataRows ==
    {[UniformRow(MeansDataColumns, site, 5) EXCEPT !["GPUR_1"] = a, !["GPUR_2"] = b]
       : site \in {Str("A"), Str("B")}, a \in DataVals, b \in DataVals}
MeansDataFamily ==
    {[cols |-> MeansDataColumns, obj |-> {SITE_ID_COL}, rows |-> rows]
       : rows \in SeqsUpTo(MeansDataRows, MaxRows)}

\* complete indicator tables in other column orders, and one without site_id
MeansLayoutFamily ==
    {[cols |-> cols, obj |-> {SITE_ID_COL} \cap Range(cols), rows |-> PatternRows(cols)]
       : cols \in {SurveyColumns, Reverse(SurveyColumns),
                   Tail(SurveyColumns) \o <<SITE_ID_COL>>, Tail(SurveyColumns)}}

IndicatorMeansInputs ==
    MeansPresenceFamily \cup MeansDataFamily \cup MeansLayoutFamily

\* the header of a KPI file: site_id, then the KPIs of the two indices
KpiColumns ==
    <<SITE_ID_COL>> \o OE_KPIS_HIGH_IS_BETTER \o OE_KPIS_LOW_IS_BETTER
      \o SAFETY_KPIS_HIGH_IS_BETTER \o SAFETY_KPIS_LOW_IS_BETTER

\* the position of column c in the KPI header
KpiNo(c) == CHOOSE i \in DOMAIN KpiColumns : KpiColumns[i] = c

\* two sites whose KPI values differ from column to column
KpiPatternRows(cols, O) ==
    <<[c \in Range(cols) |-> IF c = SITE_ID_COL THEN Str("B")
                                ELSE IF c \in O THEN Str("n/a")
                                ELSE IF c \in Range(KpiColumns) THEN Int2Num(3 * KpiNo(c))
                                ELSE Int2Num(1)],
      [c \in Range(cols) |-> IF c = SITE_ID_COL THEN Str("A")
                                ELSE IF c \in O THEN Str("n/a")
                                ELSE IF c \in Range(KpiColumns) THEN Int2Num(KpiNo(c))
                                ELSE Int2Num(2)]>>

\* KPI tables from which up to MaxAbsent columns are absent
KpiSchemaFamily ==
    {[cols |-> Filter(KpiColumns, Range(KpiColumns) \ M),
      obj  |-> {SITE_ID_COL} \ M,
      rows |-> KpiPatternRows(Filter(KpiColumns, Range(KpiColumns) \ M), {})]
       : M \in SubsetsUpTo(Range(KpiColumns), MaxAbsent)}

\* complete KPI tables in another column order, with a further KPI, or with
\* a required KPI column of object dtype
KpiLayoutFamily ==
    {[cols |-> cols, obj |-> {SITE_ID_COL} \cup O, rows |-> KpiPatternRows(cols, O)]
       : cols \in {KpiColumns, Reverse(KpiColumns), KpiColumns \o <<"sifr">>},
         O \in {{}, {"ltifr"}}}

KpiVals == {Int2Num(1), Int2Num(3), NaN}

\* complete raw KPI tables of up to MaxRows site-period rows in which one
\* KPI of each index is enumerated (that of OE_HARD may be missing)
KpiDataRows ==
    {[UniformRow(KpiColumns, site, 7) EXCEPT !["uptime_percent"] = a, !["ltifr"] = b]
       : site \in {Str("A"), Str("B")}, a \in KpiVals, b \in KpiVals \ {NaN}}
KpiDataFamily ==
    {[cols |-> KpiColumns, obj |-> {SITE_ID_COL}, rows |-> rows]
       : rows \in SeqsUpTo(KpiDataRows, MaxRows)}

KpiInputs == KpiSchemaFamily \cup KpiLayoutFamily \cup KpiDataFamily

\* the values of a site-level KPI: 1.0, 0.7 and a missing value
SiteVals == {Int2Num(1), Num(7, 10), NaN}

\* the values two KPIs take together at one site
SitePairs ==
    {<<Int2Num(1), Num(7, 10)>>, <<Num(7, 10), Int2Num(1)>>,
     <<Num(7, 10), Num(7, 10)>>, <<NaN, Int2Num(1)>>}

\* site-level KPI tables of up to MaxSites sites (one row each) in which
\* the KPIs c1 (which may be missing) and c2 are enumerated
RECURSIVE SiteRows(_, _, _)
SiteRows(c1, c2, k) ==
    IF k = 0 THEN {<<>>}
    ELSE {Append(rows,
                 [UniformRow(KpiColumns, Str(SiteOrder[k]), 7)
                    EXCEPT ![c1] = v[1], ![c2] = v[2]])
            : rows \in SiteRows(c1, c2, k - 1), v \in SitePairs}
KpiSiteFamily(c1, c2) ==
    {[cols |-> KpiColumns, obj |-> {SITE_ID_COL}, rows |-> rows]
       : rows \in UNION {SiteRows(c1, c2, k) : k \in 0..MaxSites}}

OeInputs == KpiSiteFamily("uptime_percent", "cost_per_ton") \cup KpiSchemaFamily
SafetyInputs ==
    KpiSiteFamily("safety_audits_passed_percent", "ltifr") \cup KpiSchemaFamily

\* the series passed to _standardize_series, as one-column tables
SeriesInputs ==
    {[cols |-> <<"s">>, obj |-> {}, rows |-> [i \in DOMAIN ser |-> [c \in {"s"} |-> ser[i]]]]
       : ser \in SeqsUpTo(SiteVals, MaxSites)}

\* a weight map over the KPIs a and b
WeightMap(a, wa, b, wb) == [k \in {a, b} |-> IF k = a THEN wa ELSE wb]

\* The contents given to the two weight dictionaries: the source's; 1.0 on
\* the first high-is-better KPI and an explicit 0.0 on a low-is-better one;
\* 1.0 on a low-is-better KPI and no other entry; an empty and an all-zero
\* map; weights that sum to zero; weights that do not sum to one.
WeightConfigs ==
    {[OE_WEIGHTS |-> OE_WEIGHTS, SAFETY_WEIGHTS |-> SAFETY_WEIGHTS],
     [OE_WEIGHTS |-> WeightMap("uptime_percent", Int2Num(1), "cost_per_ton", Int2Num(0)),
      SAFETY_WEIGHTS |-> WeightMap("safety_audits_passed_percent", Int2Num(1),
                                   "ltifr", Int2Num(0))],
     [OE_WEIGHTS |-> [k \in {"cost_per_ton"} |-> Int2Num(1)],
      SAFETY_WEIGHTS |-> [k \in {"ltifr"} |-> Int2Num(1)]],
     [OE_WEIGHTS |-> [k \in {} |-> Int2Num(0)],
      SAFETY_WEIGHTS |-> WeightMap("safety_audits_passed_percent", Int2Num(0),
                                   "ltifr", Int2Num(0))],
     [OE_WEIGHTS |-> WeightMap("uptime_percent", Num(1, 2), "cost_per_ton", Num(-1, 2)),
      SAFETY_WEIGHTS |-> WeightMap("safety_audits_passed_percent", Num(1, 2),
                                   "ltifr", Num(-1, 2))],
     [OE_WEIGHTS |-> WeightMap("uptime_percent", Int2Num(2), "cost_per_ton", Int2Num(1)),
      SAFETY_WEIGHTS |-> WeightMap("safety_audits_passed_percent", Int2Num(2),
                                   "ltifr", Int2Num(1))]}

\* the names is_core_kpi is asked about: the KPIs of the categories, the
\* columns of a KPI file, the entries of CORE_KPIS and an index name
KpiNameArgs ==
    Range(list_all_kpis) \cup Range(KpiColumns) \cup Range(CORE_KPIS) \cup {"OE_HARD"}

\* the method strings passed
Methods == {"simple", "weighted", "Simple", "median"}

\* the header of a merged site table: site_id, the construct scores and the
\* two indices
PathColumns == <<SITE_ID_COL>> \o SourceKeys \o <<"OE_HARD", "SAFETY_PERF">>

\* the position of column c in that header
PathNo(c) == CHOOSE i \in DOMAIN PathColumns : PathColumns[i] = c

\* site tables from which up to MaxAbsent columns are absent
PathSchemaFamily ==
    {[cols |-> Filter(PathColumns, Range(PathColumns) \ M),
      obj  |-> {SITE_ID_COL} \ M,
      rows |-> [i \in 1..3 |->
                  [c \in Range(PathColumns) \ M |->
                     IF c = SITE_ID_COL THEN Str(SiteOrder[i])
                     ELSE Int2Num(1 + ((i * PathNo(c)) % LIKERT_MAX))]]]
       : M \in SubsetsUpTo(Range(PathColumns), MaxAbsent)}

\* complete site tables of up to MaxRows sites in which OE and EP are
\* enumerated
RECURSIVE PathRows(_)
PathRows(k) ==
    IF k = 0 THEN {<<>>}
    ELSE {Append(rows,
                 [UniformRow(PathColumns, Str(SiteOrder[k]), 3)
                    EXCEPT !["OE"] = a, !["EP"] = b])
            : rows \in PathRows(k - 1), a \in DataVals, b \in DataVals}
PathDataFamily ==
    {[cols |-> PathColumns, obj |-> {SITE_ID_COL}, rows |-> rows]
       : rows \in UNION {PathRows(k) : k \in 0..MaxRows}}

PathInputs == PathSchemaFamily \cup PathDataFamily

\* the survey and the KPI file of the sites S: one row for each site, the
\* site's place in SiteOrder as every answer and 10 more as every KPI; the
\* first site has a second row
SitePlace(site) == CHOOSE k \in DOMAIN SiteOrder : SiteOrder[k] = site
FileOf(cols, S, base) ==
    [cols |-> cols, obj |-> {SITE_ID_COL},
     rows |-> LET sites == SelectSeq(SiteOrder, LAMBDA s : s \in S)
              IN  [i \in DOMAIN sites |->
                     UniformRow(cols, Str(sites[i]), base + SitePlace(sites[i]))]
                    \o (IF sites = <<>> THEN <<>>
                        ELSE <<UniformRow(cols, Str(sites[1]), base + 2)>>)]
SiteSets == {S \in SUBSET Range(SiteOrder) : Cardinality(S) <= MaxSites}
MainSurveys == {FileOf(SurveyColumns, S, 0) : S \in SiteSets}
MainKpiFiles == {FileOf(KpiColumns, S, 10) : S \in SiteSets}

\* tables of a target y and one predictor x for _ols_regression, of up to
\* MaxObs rows: y is 1, 3, 0.7 or missing and x is 0 or 1, or x is missing
\* beside a y of 1
OlsColumns == <<"y", "x">>
OlsRow(a, b) == [c \in Range(OlsColumns) |-> IF c = "y" THEN a ELSE b]
OlsRowTypes ==
    {OlsRow(a, b) : a \in {Int2Num(1), Int2Num(3), Num(7, 10), NaN},
                    b \in {Int2Num(0), Int2Num(1)}}
      \cup {OlsRow(Int2Num(1), NaN)}
OlsInputs ==
    {[cols |-> OlsColumns, obj |-> {}, rows |-> rows] : rows \in SeqsUpTo(OlsRowTypes, MaxObs)}

\* indicator tables of up to MaxRows respondents with two indicators of
\* GPUR enumerated (GPUR_2 missing in some rows), one indicator of GOPS and
\* none of the other constructs
OuterColumns == <<"GPUR_1", "GPUR_2", "GOPS_1">>
OuterRowTypes ==
    {[c \in Range(OuterColumns) |->
        IF c = "GPUR_1" THEN a ELSE IF c = "GPUR_2" THEN b ELSE Int2Num(3)]
       : a \in {Int2Num(1), Int2Num(3)}, b \in {Int2Num(1), Int2Num(4), NaN}}
OuterDataFamily ==
    {[cols |-> OuterColumns, obj |-> {}, rows |-> rows]
       : rows \in SeqsUpTo(OuterRowTypes, MaxRows)}

\* complete survey tables
OuterFullFamily ==
    {[cols |-> SurveyColumns, obj |-> {SITE_ID_COL}, rows |-> PatternRows(SurveyColumns)]}

\* the construct_codes arguments: left out, or up to MaxCodes codes among
\* two configured ones and two the registry does not hold
CodeArgs == {None} \cup SeqsUpTo({"GPUR", "GOPS", "OE_HARD", "gpur"}, MaxCodes)

\* the calls of compute_outer_model: every argument on a complete survey
\* table, and the enumerated tables with the codes left out or given
OuterCalls ==
    (OuterFullFamily \X CodeArgs) \cup (OuterDataFamily \X {None, <<"GPUR", "GOPS">>})

\* indicator tables without a missing cell, of one to three columns and up
\* to MaxObs respondents
IndicatorMatrices ==
    {Project([cols |-> OuterColumns, obj |-> {}, rows |-> rows], cols)
       : rows \in SeqsUpTo({r \in OuterRowTypes : IsNum(r["GPUR_2"])}, MaxObs),
         cols \in {<<"GPUR_1">>, <<"GPUR_1", "GPUR_2">>, <<"GPUR_1", "GPUR_2", "GOPS_1">>}}

\* the outcomes of rounding in one call: the errors cancel, or the first
\* row is off
RoundingOutcomes == {0, 1}

\* the iteration orders of the CONSTRUCTS dictionary
DictOrders == {SourceKeys, Reverse(SourceKeys)}

(***************************************************************************)
(* The state machine: the caller makes one call at a time and drops the    *)
(* result before the next one.                                             *)
(***************************************************************************)
\* The two tables that column assignments write to, and how each is made:
\* construct_scores is built by pd.DataFrame from the site_id column
\* (construct_scores.py 94), site_kpis is the .copy() of the aggregated
\* table (kpi_scores.py 268).  A table made as "input" is the caller's own.
FrameOrigin_no_copy == [construct_scores |-> "DataFrame", site_kpis |-> "input"]

FrameOrigin == [construct_scores |-> "DataFrame", site_kpis |-> "copy"]

\* The column assignments the call `name` made before it ended as r, in
\* order: one per construct code in compute_construct_scores, OE_HARD and
\* then SAFETY_PERF in build_site_kpi_table (the first is made as soon as
\* compute_oe_hard has returned).  The other operations assign no column.
Assigned(name, r) ==
    IF name = "compute_construct_scores" /\ r.err = "none"
    THEN [j \in 1..(Len(r.table.cols) - 1) |->
            [frame |-> "construct_scores", column |-> r.table.cols[j + 1]]]
    ELSE IF name = "build_site_kpi_table"
    THEN SelectSeq(<<[frame |-> "site_kpis", column |-> "OE_HARD"],
                     [frame |-> "site_kpis", column |-> "SAFETY_PERF"]>>,
                   LAMBDA w : \/ r.err = "none"
                              \/ /\ w.column = "OE_HARD"
                                 /\ \E k \in DOMAIN r.steps : r.steps[k] = "safety_perf")
    ELSE <<>>

\* the series assigned to `column` by the call `name` on t with method m
AssignedSeries(name, t, m, r, column) ==
    IF r.err = "none" THEN Series(r.table, column)
    ELSE compute_oe_hard(aggregate_kpis_per_site(t).table, m).series

\* t[column] = series: pandas aligns the series on the index of t
AssignAligned(t, column, series) ==
    WithColumn(t, column,
               [i \in DOMAIN t.rows |-> IF i \in DOMAIN series THEN series[i] ELSE NaN])

\* the caller's table t after the assignments ws of the call: only an
\* assignment to a table that is t itself changes it
RECURSIVE AfterAssignments(_, _, _, _, _)
AfterAssignments(name, t, m, r, ws) ==
    IF ws = <<>> THEN t
    ELSE AfterAssignments(name,
                          IF FrameOrigin[Head(ws).frame] = "input"
                          THEN AssignAligned(t, Head(ws).column,
                                             AssignedSeries(name, t, m, r, Head(ws).column))
                          ELSE t,
                          m, r, Tail(ws))

\* the caller's table t after the call `name` with method m that ended as r
InputAfter(name, t, m, r) == AfterAssignments(name, t, m, r, Assigned(name, r))

Init ==
    /\ op = "none"
    /\ CONSTRUCTS_keys \in DictOrders
    /\ df = NoTable
    /\ method = ""
    /\ construct_codes = <<>>
    /\ err = "none"
    /\ errNames = {}
    /\ out = NoTable
    /\ steps = <<>>
    /\ reports = <<>>
    /\ weight_maps = [OE_WEIGHTS |-> OE_WEIGHTS, SAFETY_WEIGHTS |-> SAFETY_WEIGHTS]
    /\ previous = NoCall
    /\ df_after = NoTable

\* the call `name` on table t ended as r
TableCall(name, t, r) ==
    /\ op' = name
    /\ df' = t
    /\ df_after' = InputAfter(name, t, "", r)
    /\ err' = r.err
    /\ errNames' = r.names
    /\ out' = r.table
    /\ steps' = r.steps
    /\ method' = ""
    /\ UNCHANGED <<CONSTRUCTS_keys, weight_maps, previous, construct_codes, reports>>

Call_compute_indicator_means_per_site ==
    /\ op = "none"
    /\ \E t \in SurveyInputs :
         TableCall("compute_indicator_means_per_site", t,
                   compute_indicator_means_per_site(t))

Call_compute_construct_scores ==
    /\ op = "none"
    /\ \E t \in IndicatorMeansInputs :
         TableCall("compute_construct_scores", t, compute_construct_scores(t))

Call_build_site_construct_table ==
    /\ op = "none"
    /\ \E t \in SurveyDataFamily \cup SurveyLayoutFamily :
         TableCall("build_site_construct_table", t, build_site_construct_table(t))

\* the call `name` on table t with method m ended as r
MethodCall(name, t, m, r) ==
    /\ op' = name
    /\ df' = t
    /\ df_after' = InputAfter(name, t, m, r)
    /\ method' = m
    /\ err' = r.err
    /\ errNames' = r.names
    /\ out' = r.table
    /\ steps' = r.steps
    /\ UNCHANGED <<CONSTRUCTS_keys, weight_maps, previous, construct_codes, reports>>

\* the result of an index operation: the series as a one-column table
IndexResult(name, r) ==
    IF r.err # "none" THEN Raised(r.err, r.names, <<>>)
    ELSE Returned([cols |-> <<name>>, obj |-> {},
                   rows |-> [i \in DOMAIN r.series |-> [c \in {name} |-> r.series[i]]]],
                  <<>>)

Call_aggregate_kpis_per_site ==
    /\ op = "none"
    /\ \E t \in KpiInputs :
         TableCall("aggregate_kpis_per_site", t, aggregate_kpis_per_site(t))

Call_compute_oe_hard ==
    /\ op = "none"
    /\ \E t \in OeInputs, m \in Methods :
         MethodCall("compute_oe_hard", t, m, IndexResult("OE_HARD", compute_oe_hard(t, m)))

Call_compute_safety_perf ==
    /\ op = "none"
    /\ \E t \in SafetyInputs, m \in Methods :
         MethodCall("compute_safety_perf", t, m,
                    IndexResult("SAFETY_PERF", compute_safety_perf(t, m)))

Call_build_site_kpi_table ==
    /\ op = "none"
    /\ \E t \in KpiInputs, m \in Methods :
         MethodCall("build_site_kpi_table", t, m, build_site_kpi_table(t, m))

\* the caller, still holding the outcome of build_site_kpi_table, makes the
\* same call once more
RepeatedCall(r) ==
    /\ previous' = [err |-> err, out |-> out]
    /\ err' = r.err
    /\ errNames' = r.names
    /\ out' = r.table
    /\ steps' = r.steps
    /\ df_after' = InputAfter(op, df_after, method, r)
    /\ UNCHANGED <<op, CONSTRUCTS_keys, df, method, construct_codes, reports, weight_maps>>

Call_build_site_kpi_table_again ==
    /\ op = "build_site_kpi_table"
    /\ previous = NoCall
    /\ RepeatedCall(build_site_kpi_table(df, method))

\* is_core_kpi on one name; the report holds the name and the answer
Call_is_core_kpi ==
    /\ op = "none"
    /\ \E name \in KpiNameArgs :
         /\ op' = "is_core_kpi"
         /\ reports' = <<[name |-> name, core |-> is_core_kpi(name)]>>
    /\ UNCHANGED <<CONSTRUCTS_keys, weight_maps, previous, df, df_after, method,
                   construct_codes, err, errNames, out, steps>>

\* _standardize_series on one series
Call_standardize_series ==
    /\ op = "none"
    /\ \E t \in SeriesInputs :
         TableCall("_standardize_series", t,
                   IndexResult("s", [err |-> "none", names |-> {},
                                     series |-> _standardize_series(Series(t, "s"))]))

\* client code assigns the entries of OE_WEIGHTS and SAFETY_WEIGHTS
Configure_weights ==
    /\ op = "none"
    /\ weight_maps' \in WeightConfigs \ {weight_maps}
    /\ UNCHANGED <<op, CONSTRUCTS_keys, df, method, construct_codes, err, errNames, out,
                   steps, reports, previous, df_after>>

\* run_structural_paths on table t ended as r
PathsCall(t, r) ==
    /\ op' = "run_structural_paths"
    /\ df' = t
    /\ df_after' = InputAfter("run_structural_paths", t, "", r)
    /\ err' = r.err
    /\ errNames' = r.names
    /\ reports' = r.reports
    /\ UNCHANGED <<CONSTRUCTS_keys, weight_maps, previous, method, construct_codes, out, steps>>

Call_run_structural_paths ==
    /\ op = "none"
    /\ \E t \in PathInputs, ulp \in RoundingOutcomes :
         PathsCall(t, run_structural_paths(t, ulp))

\* compute_outer_model on table t for the codes given ended as r
OuterCall(t, codes, r) ==
    /\ op' = "compute_outer_model"
    /\ df' = t
    /\ df_after' = InputAfter("compute_outer_model", t, "", r)
    /\ construct_codes' = codes
    /\ err' = r.err
    /\ errNames' = r.names
    /\ reports' = r.reports
    /\ UNCHANGED <<CONSTRUCTS_keys, weight_maps, previous, method, out, steps>>

Call_compute_outer_model ==
    /\ op = "none"
    /\ \E call \in OuterCalls, ulp \in RoundingOutcomes :
         OuterCall(call[1], call[2], compute_outer_model(call[1], call[2], ulp))

Call_cronbach_alpha ==
    /\ op = "none"
    /\ \E X \in IndicatorMatrices :
         /\ op' = "_cronbach_alpha"
         /\ df' = X
         /\ df_after' = InputAfter("_cronbach_alpha", X, "", NoCall)
         /\ reports' = <<[alpha |-> _cronbach_alpha(X)]>>
         /\ UNCHANGED <<CONSTRUCTS_keys, weight_maps, previous, method, construct_codes, err, errNames, out, steps>>

Call_compute_loadings_cr_ave ==
    /\ op = "none"
    /\ \E X \in IndicatorMatrices, ulp \in RoundingOutcomes :
         /\ op' = "_compute_loadings_cr_ave"
         /\ df' = X
         /\ df_after' = InputAfter("_compute_loadings_cr_ave", X, "", NoCall)
         /\ reports' = <<_compute_loadings_cr_ave(X, ulp)>>
         /\ UNCHANGED <<CONSTRUCTS_keys, weight_maps, previous, method, construct_codes, err, errNames, out, steps>>

\* main(method=m) on the files loaded ended as r
MainCall(survey_df, m, r) ==
    /\ op' = "main"
    /\ df' = survey_df
    /\ df_after' = InputAfter("main", survey_df, m, r)
    /\ method' = m
    /\ err' = r.err
    /\ errNames' = r.names
    /\ out' = r.table
    /\ steps' = r.steps
    /\ reports' = r.reports
    /\ UNCHANGED <<CONSTRUCTS_keys, weight_maps, previous, construct_codes>>

Call_main ==
    /\ op = "none"
    /\ \E survey_df \in MainSurveys, kpi_df \in MainKpiFiles, m \in Methods :
         MainCall(survey_df, m, main(survey_df, kpi_df, m))

\* the caller drops the result
Drop ==
    /\ op # "none"
    /\ op' = "none"
    /\ df' = NoTable
    /\ df_after' = NoTable
    /\ method' = ""
    /\ construct_codes' = <<>>
    /\ err' = "none"
    /\ errNames' = {}
    /\ out' = NoTable
    /\ steps' = <<>>
    /\ reports' = <<>>
    /\ previous' = NoCall
    /\ UNCHANGED <<CONSTRUCTS_keys, weight_maps>>

\* the configuration as the source file writes it
InitSource == Init /\ CONSTRUCTS_keys = SourceKeys

\* src/preprocessing/construct_scores.py
NextSurvey ==
    \/ Call_compute_indicator_means_per_site
    \/ Call_compute_construct_scores
    \/ Call_build_site_construct_table
    \/ Drop

SpecSurvey == Init /\ [][NextSurvey]_vars

\* the two aggregations to site level
NextAggregate ==
    \/ Call_compute_indicator_means_per_site
    \/ Call_aggregate_kpis_per_site
    \/ Drop

SpecAggregate == Init /\ [][NextAggregate]_vars

\* src/preprocessing/kpi_scores.py
NextKpi ==
    \/ Call_aggregate_kpis_per_site
    \/ Call_compute_oe_hard
    \/ Call_compute_safety_perf
    \/ Call_build_site_kpi_table
    \/ Call_build_site_kpi_table_again
    \/ Call_is_core_kpi
    \/ Drop

SpecKpi == InitSource /\ [][NextKpi]_vars

\* the index operations under the contents the weight dictionaries are given
NextWeights ==
    \/ Configure_weights
    \/ Call_standardize_series
    \/ Call_compute_oe_hard
    \/ Call_compute_safety_perf
    \/ Drop

SpecWeights == InitSource /\ [][NextWeights]_vars

\* src/analysis/structural_paths.py
\* _ols_regression(t["y"], t[["x"]])
Call_ols_regression ==
    /\ op = "none"
    /\ \E t \in OlsInputs, ulp \in RoundingOutcomes :
         /\ op' = "_ols_regression"
         /\ df' = t
         /\ df_after' = InputAfter("_ols_regression", t, "", NoCall)
         /\ reports' = <<_ols_regression(Series(t, "y"), Project(t, <<"x">>), ulp)>>
         /\ UNCHANGED <<CONSTRUCTS_keys, weight_maps, previous, method, construct_codes, err, errNames, out, steps>>

NextPaths ==
    \/ Call_run_structural_paths
    \/ Call_ols_regression
    \/ Drop

SpecPaths == InitSource /\ [][NextPaths]_vars

\* src/analysis/outer_model.py
NextOuter ==
    \/ Call_compute_outer_model
    \/ Call_cronbach_alpha
    \/ Call_compute_loadings_cr_ave
    \/ Drop

SpecOuter == InitSource /\ [][NextOuter]_vars

NextMain ==
    \/ Call_main
    \/ Drop

SpecMain == InitSource /\ [][NextMain]_vars

\* the operations that are handed a table by client code
NextFrame ==
    \/ Call_compute_indicator_means_per_site
    \/ Call_compute_construct_scores
    \/ Call_build_site_kpi_table
    \/ Call_build_site_kpi_table_again
    \/ Call_compute_oe_hard
    \/ Call_compute_safety_perf
    \/ Call_compute_outer_model
    \/ Call_ols_regression
    \/ Drop

SpecFrame == InitSource /\ [][NextFrame]_vars

\* the whole library
Next ==
    \/ NextSurvey
    \/ NextKpi
    \/ NextWeights
    \/ NextPaths
    \/ NextOuter
    \/ NextMain

Spec == Init /\ [][Next]_vars

(***************************************************************************)
(* Properties.                                                             *)
(***************************************************************************)
\* the sum of the cells of row r under the columns in S
RECURSIVE SumOfColumns(_, _)
SumOfColumns(r, S) ==
    IF S = {} THEN Int2Num(0)
    ELSE LET c == CHOOSE x \in S : TRUE
         IN  RAdd(r[c], SumOfColumns(r, S \ {c}))

\* the identifiers of the sites of a table, and the cells a site has in a column
SitesOf(t) == {t.rows[i][SITE_ID_COL].s : i \in DOMAIN t.rows} \ {""}
RowsOfSite(t, site) == {i \in DOMAIN t.rows : t.rows[i][SITE_ID_COL].s = site}
RECURSIVE SumOfRows(_, _, _)
SumOfRows(t, I, c) ==
    IF I = {} THEN Int2Num(0)
    ELSE LET i == CHOOSE x \in I : TRUE
         IN  RAdd(t.rows[i][c], SumOfRows(t, I \ {i}, c))

\* every column the survey validation requires
SurveyRequired ==
    {SITE_ID_COL} \cup UNION {Range(CONSTRUCTS[code]) : code \in DOMAIN CONSTRUCTS}

\* C1: compute_indicator_means_per_site on a table that lacks site_id or an
\* indicator of a configured construct fails with the schema error, whose
\* message names every missing column, and returns no table; on a table
\* that lacks none it does not fail.
C1_SurveySchemaError ==
    op = "compute_indicator_means_per_site" =>
        LET missing == SurveyRequired \ Columns(df)
        IN  /\ missing # {} =>
                 err = "SchemaError" /\ errNames = missing /\ out = NoTable
            /\ missing = {} => err = "none"

C1_Witness ==
    /\ op = "compute_indicator_means_per_site"
    /\ err = "SchemaError"
    /\ SITE_ID_COL \in errNames
    /\ "OE_5" \in errNames
    /\ out = NoTable

\* C7: the two aggregations return one row per site identifier of the input
\* (rows without identifier belong to no site), and each value is the mean
\* of the non-missing cells the site has in the column, missing when the
\* site has none.
C7_GroupMeans ==
    (op \in {"compute_indicator_means_per_site", "aggregate_kpis_per_site"}
       /\ err = "none") =>
        /\ {out.rows[i][SITE_ID_COL].s : i \in DOMAIN out.rows} = SitesOf(df)
        /\ Len(out.rows) = Cardinality(SitesOf(df))
        /\ \A i \in DOMAIN out.rows : \A c \in Columns(out) \ {SITE_ID_COL} :
              LET valid == {j \in RowsOfSite(df, out.rows[i][SITE_ID_COL].s) :
                              IsNum(df.rows[j][c])}
                  v == out.rows[i][c]
              IN  IF valid = {} THEN v = NaN
                  ELSE /\ IsNum(v)
                       /\ RMul(v, Int2Num(Cardinality(valid))) = SumOfRows(df, valid, c)

\* a site with two rows: one column with a missing and a present cell,
\* another with the cells 2 and 4
C7_Witness ==
    /\ op = "compute_indicator_means_per_site"
    /\ err = "none"
    /\ Len(df.rows) = 2
    /\ Len(out.rows) = 1
    /\ \E i, j \in DOMAIN df.rows :
          /\ df.rows[i]["GPUR_1"] = NaN
          /\ df.rows[j]["GPUR_1"] = Int2Num(2)
          /\ df.rows[i]["GPUR_2"] = Int2Num(4)
          /\ df.rows[j]["GPUR_2"] = NaN
    /\ out.rows[1]["GPUR_1"] = Int2Num(2)
    /\ out.rows[1]["GPUR_2"] = Int2Num(4)
    /\ out.rows[1]["GPUR_3"] = Int2Num(3)

\* C8: compute_construct_scores keeps the site_id rows of its input, and
\* the score of a construct with an indicator column present is, in every
\* row, the mean of the non-missing cells of its indicator columns present.
C8_ConstructScoreIsRowMean ==
    (op = "compute_construct_scores" /\ err = "none") =>
        /\ Len(out.rows) = Len(df.rows)
        /\ \A i \in DOMAIN df.rows : out.rows[i][SITE_ID_COL] = df.rows[i][SITE_ID_COL]
        /\ \A code \in DOMAIN CONSTRUCTS :
              LET present == Range(CONSTRUCTS[code]) \cap Columns(df)
              IN  present # {} =>
                    /\ code \in Columns(out)
                    /\ \A i \in DOMAIN df.rows :
                          LET valid == {c \in present : IsNum(df.rows[i][c])}
                              v == out.rows[i][code]
                          IN  IF valid = {} THEN v = NaN
                              ELSE /\ IsNum(v)
                                   /\ RMul(v, Int2Num(Cardinality(valid)))
                                        = SumOfColumns(df.rows[i], valid)

\* site A with GPUR_1 = 4 and GPUR_2 = 2, no other GPUR indicator: GPUR = 3
C8_Witness ==
    /\ op = "compute_construct_scores"
    /\ err = "none"
    /\ Range(CONSTRUCTS["GPUR"]) \cap Columns(df) = {"GPUR_1", "GPUR_2"}
    /\ \E i \in DOMAIN df.rows :
          /\ df.rows[i][SITE_ID_COL] = Str("A")
          /\ df.rows[i]["GPUR_1"] = Int2Num(4)
          /\ df.rows[i]["GPUR_2"] = Int2Num(2)
          /\ out.rows[i][SITE_ID_COL] = Str("A")
          /\ out.rows[i]["GPUR"] = Int2Num(3)

\* C9: compute_construct_scores on a table with site_id does not fail; its
\* output has a column for a construct exactly when an indicator of the
\* construct is a column of the input, and the column of a construct is
\* what the call returns when the input holds that construct's indicators
\* alone.
C9_AbsentConstructSkipped ==
    (op = "compute_construct_scores" /\ SITE_ID_COL \in Columns(df)) =>
        /\ err = "none"
        /\ Columns(out) \subseteq {SITE_ID_COL} \cup DOMAIN CONSTRUCTS
        /\ \A code \in DOMAIN CONSTRUCTS :
              /\ code \in Columns(out) <=> Range(CONSTRUCTS[code]) \cap Columns(df) # {}
              /\ code \in Columns(out) =>
                    LET alone == compute_construct_scores(
                                    Project(df, <<SITE_ID_COL>> \o PresentIndicators(df, code)))
                    IN  /\ alone.err = "none"
                        /\ \A i \in DOMAIN out.rows :
                              out.rows[i][code] = alone.table.rows[i][code]

\* only GLOG and OE have an indicator in the input
C9_Witness ==
    /\ op = "compute_construct_scores"
    /\ err = "none"
    /\ Columns(df) = {SITE_ID_COL, "GLOG_2", "OE_4"}
    /\ out.cols = <<SITE_ID_COL, "GLOG", "OE">>

\* C10: the construct columns of compute_construct_scores follow site_id in
\* the order drivers, mediators, outcomes, whatever the iteration order of
\* the dictionary and the column order of the input; get_construct_codes
\* returns every configured code exactly once.
DocumentedOrder ==
    <<"GPUR", "GOPS", "GLOG", "GTRN", "GCOL", "SUPINT", "MAINT", "COMP", "OE", "EP">>

C10_StableColumnOrder ==
    /\ Range(get_construct_codes) = DOMAIN CONSTRUCTS
    /\ Len(get_construct_codes) = Cardinality(DOMAIN CONSTRUCTS)
    /\ (op = "compute_construct_scores" /\ err = "none") =>
          out.cols = <<SITE_ID_COL>> \o Filter(DocumentedOrder, Columns(out))

\* the dictionary iterates in reverse, the input columns are in reverse
C10_Witness ==
    /\ op = "compute_construct_scores"
    /\ err = "none"
    /\ CONSTRUCTS_keys = Reverse(SourceKeys)
    /\ df.cols = Reverse(SurveyColumns)
    /\ out.cols = <<SITE_ID_COL>> \o DocumentedOrder

\* every column the KPI validation requires
KpiRequired ==
    {SITE_ID_COL,
     "uptime_percent", "tons_per_hour",
     "cost_per_ton", "rework_rate_percent", "energy_kwh_per_ton", "water_m3_per_ton",
     "maintenance_cost_per_ton",
     "safety_audits_passed_percent", "employees_competent_percent",
     "ltifr", "trifr"}

\* C2: aggregate_kpis_per_site and build_site_kpi_table on a table that
\* lacks site_id or a KPI of either index fail with the schema error, whose
\* message lists every missing name, after the validation alone: nothing
\* is aggregated, no index is computed and no table is returned.
C2_KpiSchemaError ==
    op \in {"aggregate_kpis_per_site", "build_site_kpi_table"} =>
        LET missing == KpiRequired \ Columns(df)
        IN  missing # {} =>
              /\ err = "SchemaError"
              /\ errNames = missing
              /\ steps = <<"validate">>
              /\ out = NoTable

C2_Witness ==
    /\ op = "build_site_kpi_table"
    /\ Columns(df) = KpiRequired \ {"ltifr", "uptime_percent"}
    /\ err = "SchemaError"
    /\ errNames = {"ltifr", "uptime_percent"}
    /\ steps = <<"validate">>

IndexOps == {"compute_oe_hard", "compute_safety_perf", "build_site_kpi_table"}
KnownMethods == {"simple", "weighted"}

\* C3 as stated: an index operation called with a method other than
\* "simple" and "weighted" fails with the unknown-method error, whatever
\* the table, and returns nothing; with these two it never raises it.
C3_AsStated ==
    op \in IndexOps =>
        /\ method \notin KnownMethods => err = "UnknownMethodError" /\ out = NoTable
        /\ method \in KnownMethods => err # "UnknownMethodError"

\* the table holds, as numeric columns, the KPIs the operation reads before
\* it looks at the method
ReadableBy(operation, t) ==
    CASE operation = "compute_oe_hard" ->
           (Range(OE_KPIS_HIGH_IS_BETTER) \cup Range(OE_KPIS_LOW_IS_BETTER))
              \subseteq (Columns(t) \ t.obj)
      [] operation = "compute_safety_perf" ->
           (Range(SAFETY_KPIS_HIGH_IS_BETTER) \cup Range(SAFETY_KPIS_LOW_IS_BETTER))
              \subseteq (Columns(t) \ t.obj)
      [] operation = "build_site_kpi_table" ->
           /\ KpiRequired \subseteq Columns(t)
           /\ (Range(OE_KPIS_HIGH_IS_BETTER) \cup Range(OE_KPIS_LOW_IS_BETTER))
                 \cap t.obj = {}
      [] OTHER -> FALSE

\* the table lacks a column the operation reads before it looks at the
\* method
LackedBy(operation, t) ==
    CASE operation = "compute_oe_hard" ->
           (Range(OE_KPIS_HIGH_IS_BETTER) \cup Range(OE_KPIS_LOW_IS_BETTER)) \ Columns(t)
      [] operation = "compute_safety_perf" ->
           (Range(SAFETY_KPIS_HIGH_IS_BETTER) \cup Range(SAFETY_KPIS_LOW_IS_BETTER))
              \ Columns(t)
      [] operation = "build_site_kpi_table" -> KpiRequired \ Columns(t)
      [] OTHER -> {}

\* C3, amended: on a table that holds the KPI columns the operation reads,
\* an index operation called with a method other than "simple" and
\* "weighted" fails with the unknown-method error and returns nothing;
\* with these two methods it never raises that error, whatever the table.
\* On a table that lacks such a column the call fails for the column
\* (KeyError, or the schema error of build_site_kpi_table), whatever the
\* method.
C3_UnknownMethod ==
    op \in IndexOps =>
        /\ (method \notin KnownMethods /\ ReadableBy(op, df)) =>
              err = "UnknownMethodError" /\ out = NoTable
        /\ method \in KnownMethods => err # "UnknownMethodError"
        /\ LackedBy(op, df) # {} =>
              /\ err = IF op = "build_site_kpi_table" THEN "SchemaError" ELSE "KeyError"
              /\ out = NoTable

C3_Witness ==
    /\ op = "build_site_kpi_table"
    /\ method = "median"
    /\ Len(df.rows) = 2
    /\ err = "UnknownMethodError"
    /\ steps = <<"validate", "groupby", "oe_hard">>
    /\ out = NoTable

\* every column a path spec names
PathReferenced ==
    {"OE", "EP", "OE_HARD", "SAFETY_PERF", "MAINT", "COMP", "SUPINT",
     "GPUR", "GOPS", "GLOG", "GTRN", "GCOL"}

\* C4: run_structural_paths on a site table that lacks a target or a
\* predictor column named in a path spec fails with the missing-column
\* error (a KeyError naming absent columns); it neither returns nor fits a
\* model of a spec some column of which is absent.
C4_MissingColumnFails ==
    op = "run_structural_paths" =>
        LET missing == PathReferenced \ Columns(df)
        IN  missing # {} =>
              /\ err = "KeyError"
              /\ errNames # {}
              /\ errNames \subseteq missing
              /\ \A i \in DOMAIN reports :
                    /\ reports[i].target \in Columns(df)
                    /\ reports[i].predictors = path_specs[i].predictors
                    /\ Range(reports[i].predictors) \subseteq Columns(df)

\* only GCOL, a predictor of the third spec, is absent
C4_Witness ==
    /\ op = "run_structural_paths"
    /\ PathReferenced \ Columns(df) = {"GCOL"}
    /\ err = "KeyError"
    /\ errNames = {"GCOL"}

\* C5: when run_structural_paths fails for an absent column, no path-model
\* result of any target has been produced before the failure.
C5_NothingReportedOnFailure ==
    (op = "run_structural_paths" /\ err # "none") => reports = <<>>

\* C6: compute_outer_model called with a code that the registry does not
\* hold fails, whatever the table: it returns no rows, neither for that
\* code nor for the codes before it.
C6_UnknownCodeFails ==
    (op = "compute_outer_model" /\ construct_codes # None) =>
        LET unknown == Range(construct_codes) \ DOMAIN CONSTRUCTS
        IN  unknown # {} =>
              /\ err = "KeyError"
              /\ errNames \subseteq unknown
              /\ Cardinality(errNames) = 1
              /\ reports = <<>>

\* GPUR has two indicator columns and complete rows, the code after it is
\* unknown
C6_Witness ==
    /\ op = "compute_outer_model"
    /\ construct_codes = <<"GPUR", "gpur">>
    /\ {"GPUR_1", "GPUR_2"} \subseteq Columns(df)
    /\ \E i \in DOMAIN df.rows :
          \A c \in Range(CONSTRUCTS["GPUR"]) \cap Columns(df) : IsNum(df.rows[i][c])
    /\ err = "KeyError"
    /\ errNames = {"gpur"}
    /\ reports = <<>>

\* C11: in the table of construct scores, the score of a construct in a row
\* is the not-a-number marker whenever fewer than two of the construct's
\* indicator cells of that row hold a value.
C11_UndefinedBelowTwoItems ==
    (op = "compute_construct_scores" /\ err = "none") =>
        \A code \in Columns(out) \ {SITE_ID_COL} :
            \A i \in DOMAIN df.rows :
                LET valid == {c \in Range(CONSTRUCTS[code]) \cap Columns(df) :
                                IsNum(df.rows[i][c])}
                IN  Cardinality(valid) < 2 => out.rows[i][code] = NaN

\* the codes a call of compute_outer_model goes through
Requested == IF construct_codes = None THEN CONSTRUCTS_keys ELSE construct_codes

\* the indicators of a construct that are columns of df, in configured order
PresentOf(code) == Filter(CONSTRUCTS[code], Columns(df))

\* the rows of df without a missing cell under `names`
CompleteOn(names) ==
    {i \in DOMAIN df.rows : \A c \in Range(names) : IsNum(df.rows[i][c])}

Eligible(code) == Len(PresentOf(code)) >= 2 /\ CompleteOn(PresentOf(code)) # {}

\* the table of the rows of df complete under `names`, these columns only
CompleteTable(names) ==
    LET kept == SelectSeq(df.rows, LAMBDA r : \A c \in Range(names) : IsNum(r[c]))
    IN  [cols |-> names, obj |-> {},
         rows |-> [i \in 1..Len(kept) |-> [c \in Range(names) |-> kept[i][c]]]]

\* C12: compute_outer_model over configured codes does not fail and returns
\* one row per requested construct that has at least 2 indicator columns
\* and a row complete on them, in the order requested, and no other row; a
\* row holds the number of indicator columns, the number of complete rows,
\* and alpha, cr, ave and loadings as computed from the complete rows alone.
C12_RowIffEligible ==
    (op = "compute_outer_model" /\ Range(Requested) \subseteq DOMAIN CONSTRUCTS) =>
        /\ err = "none"
        /\ [i \in DOMAIN reports |-> reports[i].construct] = SelectSeq(Requested, Eligible)
        /\ \A i \in DOMAIN reports :
              LET names == PresentOf(reports[i].construct)
                  X == CompleteTable(names)
              IN  /\ reports[i].n_indicators
                        = Cardinality(Range(CONSTRUCTS[reports[i].construct]) \cap Columns(df))
                  /\ reports[i].n_obs = Cardinality(CompleteOn(names))
                  /\ reports[i].alpha = _cronbach_alpha(X)
                  /\ \E ulp \in RoundingOutcomes :
                        LET stats == _compute_loadings_cr_ave(X, ulp)
                        IN  /\ reports[i].cr = stats.cr
                            /\ reports[i].ave = stats.ave
                            /\ reports[i].loadings = stats.loadings

\* two respondents, one of them without GPUR_2: the row of GPUR counts 1
\* observation and GOPS, with one indicator column, has no row
C12_Witness ==
    /\ op = "compute_outer_model"
    /\ construct_codes = <<"GPUR", "GOPS">>
    /\ Len(df.rows) = 2
    /\ Cardinality(CompleteOn(<<"GPUR_1", "GPUR_2">>)) = 1
    /\ Len(reports) = 1
    /\ reports[1].construct = "GPUR"
    /\ reports[1].n_indicators = 2
    /\ reports[1].n_obs = 1
    /\ reports[1].alpha = NaN

\* n * (sum of squares) - (square of the sum): n * (n - 1) times var(ddof=1)
ScaledVar(ser) ==
    RSub(RMul(Int2Num(Len(ser)), RSum([i \in DOMAIN ser |-> RMul(ser[i], ser[i])])),
         RMul(RSum(ser), RSum(ser)))

\* C13: _cronbach_alpha of k items over n rows is the not-a-number marker
\* exactly when k < 2 or the sample variance V of the row sums is undefined
\* (n < 2) or zero; otherwise alpha = k/(k-1) * (1 - (sum of the item
\* sample variances) / V), that is alpha * (k-1) * V = k * (V - sum).
C13_AlphaFormula ==
    op = "_cronbach_alpha" =>
        LET k == Len(df.cols)
            n == Len(df.rows)
            alpha == reports[1].alpha
            items == RSum([j \in 1..k |-> ScaledVar(Series(df, df.cols[j]))])
            total == ScaledVar([i \in 1..n |-> RSum(RowCells(df.rows[i], df.cols))])
            undefined == k < 2 \/ n < 2 \/ total.n = 0
        IN  /\ undefined <=> alpha = NaN
            /\ ~undefined =>
                  RMul(alpha, RMul(Int2Num(k - 1), total))
                     = RMul(Int2Num(k), RSub(total, items))

\* two items over three rows with an alpha strictly between 0 and 1
C13_Witness ==
    /\ op = "_cronbach_alpha"
    /\ Len(df.cols) = 2
    /\ Len(df.rows) = 3
    /\ reports[1].alpha # NaN
    /\ RLess(Int2Num(0), reports[1].alpha)
    /\ RLess(reports[1].alpha, Int2Num(1))

\* every column under `names` holds one value over the complete rows
ConstantOn(names) ==
    \A c \in Range(names) :
        \A i, j \in CompleteOn(names) : df.rows[i][c] = df.rows[j][c]

\* C14: compute_outer_model over configured codes does not fail, and a
\* requested construct with at least 2 indicator columns, a complete row
\* and no variance in any indicator over the complete rows has a row, in
\* which alpha, every loading, cr and ave are the not-a-number marker.
C14_ZeroVarianceUndefined ==
    (op = "compute_outer_model" /\ Range(Requested) \subseteq DOMAIN CONSTRUCTS) =>
        /\ err = "none"
        /\ \A code \in Range(Requested) :
              (Eligible(code) /\ ConstantOn(PresentOf(code))) =>
                  /\ \E i \in DOMAIN reports : reports[i].construct = code
                  /\ \A i \in DOMAIN reports :
                        reports[i].construct = code =>
                            /\ reports[i].alpha = NaN
                            /\ Len(reports[i].loadings) = Len(PresentOf(code))
                            /\ \A j \in DOMAIN reports[i].loadings :
                                  reports[i].loadings[j].value = QNaN
                            /\ reports[i].cr = QNaN
                            /\ reports[i].ave = QNaN

\* two complete respondents with the same answers to GPUR_1 and to GPUR_2
C14_Witness ==
    /\ op = "compute_outer_model"
    /\ err = "none"
    /\ Cardinality(CompleteOn(<<"GPUR_1", "GPUR_2">>)) >= 2
    /\ ConstantOn(<<"GPUR_1", "GPUR_2">>)
    /\ Len(reports) = 1
    /\ reports[1].construct = "GPUR"
    /\ reports[1].alpha = NaN
    /\ reports[1].loadings = <<[name |-> "GPUR_1", value |-> QNaN],
                                [name |-> "GPUR_2", value |-> QNaN]>>

\* C15: in a result of _compute_loadings_cr_ave every loading that is a
\* number lies in [-1, 1], an AVE that is a number lies in [0, 1], and when
\* AVE and alpha are numbers and some loading is positive, CR is a number
\* in (0, 1].
C15_RangesOfLoadings ==
    op = "_compute_loadings_cr_ave" =>
        LET r == reports[1]
        IN  /\ \A j \in DOMAIN r.loadings :
                  LET v == r.loadings[j].value
                  IN  v # QNaN => SSign(SSub(v.q, SMul(v.p, v.p))) >= 0
            /\ r.ave # QNaN =>
                  SSign(r.ave.p) >= 0 /\ SSign(SSub(r.ave.q, r.ave.p)) >= 0
            /\ (/\ r.ave # QNaN
                /\ _cronbach_alpha(df) # NaN
                /\ \E j \in DOMAIN r.loadings :
                      r.loadings[j].value # QNaN /\ SSign(r.loadings[j].value.p) > 0)
                  => /\ r.cr # QNaN
                     /\ SSign(r.cr.p) > 0
                     /\ SSign(SSub(r.cr.q, r.cr.p)) >= 0

\* the index operation of the state: its column, its KPI lists and its
\* weight dictionary
IndexCall == op \in {"compute_oe_hard", "compute_safety_perf"} /\ err = "none"
IndexName == IF op = "compute_oe_hard" THEN "OE_HARD" ELSE "SAFETY_PERF"
HighKpis ==
    IF op = "compute_oe_hard" THEN OE_KPIS_HIGH_IS_BETTER ELSE SAFETY_KPIS_HIGH_IS_BETTER
LowKpis ==
    IF op = "compute_oe_hard" THEN OE_KPIS_LOW_IS_BETTER ELSE SAFETY_KPIS_LOW_IS_BETTER
IndexWeights ==
    IF op = "compute_oe_hard" THEN weight_maps.OE_WEIGHTS ELSE weight_maps.SAFETY_WEIGHTS

\* the weight dictionary gives 1.0 to k and 0.0 or no entry to the others
UnitOn(k) ==
    /\ WeightOf(IndexWeights, k) = Int2Num(1)
    /\ \A o \in Range(HighKpis \o LowKpis) \ {k} : WeightOf(IndexWeights, o) = Int2Num(0)

\* the z-scores of KPI k of the table passed, negated for a low-is-better k
SignAdjusted(k) ==
    LET z == ZScores(Series(df, k))
    IN  [i \in DOMAIN z |-> IF k \in Range(HighKpis) THEN z[i] ELSE SNeg(z[i])]

\* site i has a better raw value of k than site j
Better(k, i, j) ==
    /\ IsNum(df.rows[i][k])
    /\ IsNum(df.rows[j][k])
    /\ IF k \in Range(HighKpis) THEN RLess(df.rows[j][k], df.rows[i][k])
       ELSE RLess(df.rows[i][k], df.rows[j][k])

\* C16: _standardize_series returns the z-scores (population standard
\* deviation) of the series and 0 for every site when the values are all
\* equal; the component of a KPI, read off the weighted index whose only
\* weight 1.0 is on that KPI, is this z-score for a high-is-better KPI and
\* its negation for a low-is-better one, and is never smaller for a site
\* with a better raw value.
C16_Components ==
    /\ op = "_standardize_series" => Series(out, "s") = ZScores(Series(df, "s"))
    /\ (IndexCall /\ method = "weighted") =>
          \A k \in Range(HighKpis \o LowKpis) :
             UnitOn(k) =>
                /\ Series(out, IndexName) = SignAdjusted(k)
                /\ \A i, j \in DOMAIN out.rows :
                      Better(k, i, j) =>
                         SSign(SSub(out.rows[i][IndexName], out.rows[j][IndexName])) >= 0

\* the orders in which n rows can be put
RowOrders(n) == {f \in [1..n -> 1..n] : \A i, j \in 1..n : f[i] = f[j] => i = j}

\* table t with its rows in the order f
Permuted(t, f) == [t EXCEPT !.rows = [i \in DOMAIN t.rows |-> t.rows[f[i]]]]

\* the index operation of the state applied to table t
IndexOf(t, m) ==
    IF op = "compute_oe_hard" THEN compute_oe_hard(t, m) ELSE compute_safety_perf(t, m)

\* C17: with method "simple", compute_oe_hard and compute_safety_perf on
\* the site table with its rows permuted return the index values of the
\* original call permuted in the same way.
C17_SimpleRowOrder ==
    (IndexCall /\ method = "simple") =>
        \A f \in RowOrders(Len(df.rows)) :
           LET r == IndexOf(Permuted(df, f), "simple")
           IN  /\ r.err = "none"
               /\ r.series = [i \in DOMAIN df.rows |-> out.rows[f[i]][IndexName]]

\* a simple index over three sites whose values differ between sites
C17_Witness ==
    /\ IndexCall
    /\ method = "simple"
    /\ Len(df.rows) = 3
    /\ out.rows[1][IndexName] # out.rows[2][IndexName]
    /\ out.rows[2][IndexName] # out.rows[3][IndexName]
    /\ SIsNum(out.rows[1][IndexName])

\* C18: with method "weighted" and a weight dictionary that gives 1.0 to one
\* KPI of the index and 0.0 or no entry to all others, the index of every
\* site is the standardised, sign-adjusted component of that KPI.
C18_UnitWeight ==
    (IndexCall /\ method = "weighted") =>
        \A k \in Range(HighKpis \o LowKpis) :
           UnitOn(k) => Series(out, IndexName) = Components(df, HighKpis, LowKpis)[k]

\* a weighted index under weight 1.0 on the low-is-better cost_per_ton alone,
\* over three sites of which the first is the cheapest
C18_Witness ==
    /\ op = "compute_oe_hard"
    /\ err = "none"
    /\ method = "weighted"
    /\ UnitOn("cost_per_ton")
    /\ Len(df.rows) = 3
    /\ SSign(out.rows[1]["OE_HARD"]) > 0
    /\ SSign(out.rows[2]["OE_HARD"]) < 0

\* the KPIs of the index operation of the state that have a non-zero weight
Applied == SelectSeq(HighKpis \o LowKpis, LAMBDA k : WeightOf(IndexWeights, k) # Int2Num(0))

\* the sum of their weights
TotalApplied == RSum([j \in DOMAIN Applied |-> WeightOf(IndexWeights, Applied[j])])

\* the table passed with the numbers of column k replaced
Altered(k, v) ==
    [df EXCEPT !.rows = [i \in DOMAIN df.rows |-> [df.rows[i] EXCEPT ![k] = v[i]]]]

\* C19: a "weighted" call on a table that has every KPI column returns;
\* the index of a site times the total of the non-zero weights is the sum
\* of weight times component over the KPIs with a non-zero weight (the
\* index is that sum itself when the total is zero); and the call returns
\* the same index when the values of a KPI without a weight or with weight
\* 0 are replaced (by a missing value at the first site and other numbers
\* at the others).
C19_WeightedIndex ==
    (/\ op \in {"compute_oe_hard", "compute_safety_perf"}
     /\ method = "weighted"
     /\ Range(HighKpis \o LowKpis) \subseteq Columns(df)) =>
        LET c == Components(df, HighKpis, LowKpis)
            sum(i) == SSum([j \in DOMAIN Applied |->
                              SScale(c[Applied[j]][i], WeightOf(IndexWeights, Applied[j]))])
        IN  /\ err = "none"
            /\ \A i \in DOMAIN df.rows :
                  IF TotalApplied = Int2Num(0) THEN out.rows[i][IndexName] = sum(i)
                  ELSE SScale(out.rows[i][IndexName], TotalApplied) = sum(i)
            /\ \A k \in Range(HighKpis \o LowKpis) \ Range(Applied) :
                  IndexOf(Altered(k, [i \in DOMAIN df.rows |->
                                        IF i = 1 THEN NaN ELSE Int2Num(i)]),
                          "weighted").series
                     = Series(out, IndexName)

\* a weighted index under the weights 0.5 and -0.5, which sum to zero: the
\* call returned the weighted sum, a number other than 0 for the first site
C19_Witness ==
    /\ op = "compute_oe_hard"
    /\ method = "weighted"
    /\ err = "none"
    /\ Applied = <<"uptime_percent", "cost_per_ton">>
    /\ TotalApplied = Int2Num(0)
    /\ Len(df.rows) = 3
    /\ SSign(out.rows[1]["OE_HARD"]) # 0
    /\ SIsNum(out.rows[1]["OE_HARD"])

IndexKpis ==
    Range(OE_KPIS_HIGH_IS_BETTER) \cup Range(OE_KPIS_LOW_IS_BETTER)
      \cup Range(SAFETY_KPIS_HIGH_IS_BETTER) \cup Range(SAFETY_KPIS_LOW_IS_BETTER)

\* the names of KPI columns: those of the categories and of a KPI file
KpiColumnNames == Range(list_all_kpis) \cup (Range(KpiColumns) \ {SITE_ID_COL})

\* C30: is_core_kpi answers true for every KPI of the index builder and for
\* fifr, a name written in the core list, and a name it answers true for is
\* the name of a KPI column.
C30_CoreKpisConsistent ==
    op = "is_core_kpi" =>
        /\ reports[1].name \in IndexKpis \cup {"fifr"} => reports[1].core
        /\ reports[1].core => reports[1].name \in KpiColumnNames

\* C29: build_site_kpi_table on a table that validate_kpi_columns accepts,
\* with method "simple" or "weighted", returns a table that holds site_id,
\* every KPI of the two indices, OE_HARD and SAFETY_PERF.
C29_ValidatedTableBuilds ==
    (/\ op = "build_site_kpi_table"
     /\ validate_kpi_columns(df) = {}
     /\ method \in {"simple", "weighted"}) =>
        /\ err = "none"
        /\ {SITE_ID_COL, "OE_HARD", "SAFETY_PERF"} \cup IndexKpis \subseteq Columns(out)

\* the index KPIs of the state's operation that are missing at site i
MissingAt(i) == {k \in Range(HighKpis \o LowKpis) : ~IsNum(df.rows[i][k])}

\* C28: where one index KPI of a site is missing and the others are
\* present, the "simple" and the "weighted" index of that site are both
\* defined.
C28_MissingKpiSameTreatment ==
    IndexCall =>
        \A i \in DOMAIN df.rows :
           Cardinality(MissingAt(i)) = 1 =>
              /\ SIsNum(IndexOf(df, "simple").series[i])
              /\ SIsNum(IndexOf(df, "weighted").series[i])

\* the loadings of the result that are numbers
DefinedLoadings ==
    SelectSeq([j \in DOMAIN reports[1].loadings |-> reports[1].loadings[j].value],
              LAMBDA v : v # QNaN)

\* column c of the table passed holds one value
ZeroVariance(c) == df.rows # <<>> /\ PopVar(Series(df, c)).n = 0

\* the quotient v is sum^2 / (sum^2 + sum of (1 - lambda^2)) over the
\* loadings l = p / sqrt(q), or the missing value when that divisor is 0
IsCrOf(v, l) ==
    LET sum == SSum([j \in DOMAIN l |-> l[j].p])
        squares == SSum([j \in DOMAIN l |-> SMul(l[j].p, l[j].p)])
        den == SAdd(SMul(sum, sum), SSub(SScale(l[1].q, Int2Num(Len(l))), squares))
    IN  IF den = SZero THEN v = QNaN
        ELSE v # QNaN /\ SMul(v.p, den) = SMul(SMul(sum, sum), v.q)

\* the quotient v is the mean of lambda^2 over the loadings l
IsAveOf(v, l) ==
    LET squares == SSum([j \in DOMAIN l |-> SMul(l[j].p, l[j].p)])
    IN  /\ v # QNaN
        /\ SMul(v.p, SScale(l[1].q, Int2Num(Len(l)))) = SMul(squares, v.q)

\* C27: in a result of _compute_loadings_cr_ave an indicator without
\* variance is standardised to zeros and has the missing value as its
\* loading; cr and ave are those of the loadings that are numbers alone,
\* so ave is a number whenever some loading is; cr and ave are both the
\* missing value exactly when no loading is a number.
C27_MixedVariance ==
    op = "_compute_loadings_cr_ave" =>
        LET r == reports[1]
        IN  /\ \A j \in DOMAIN df.cols :
                  ZeroVariance(df.cols[j]) =>
                     /\ \A i \in DOMAIN df.rows : Standardized(df, df.cols[j])[i] = SZero
                     /\ r.loadings[j].name = df.cols[j]
                     /\ r.loadings[j].value = QNaN
            /\ DefinedLoadings # <<>> =>
                  /\ \A j \in DOMAIN DefinedLoadings :
                        DefinedLoadings[j].q = DefinedLoadings[1].q
                  /\ IsCrOf(r.cr, DefinedLoadings)
                  /\ IsAveOf(r.ave, DefinedLoadings)
            /\ (r.cr = QNaN /\ r.ave = QNaN) <=> DefinedLoadings = <<>>

\* three indicators, one without variance: two loadings are numbers, and
\* so are cr and ave
C27_Witness ==
    /\ op = "_compute_loadings_cr_ave"
    /\ Len(df.cols) = 3
    /\ ZeroVariance("GOPS_1")
    /\ reports[1].loadings[3].value = QNaN
    /\ Len(DefinedLoadings) = 2
    /\ reports[1].cr # QNaN
    /\ reports[1].ave # QNaN

\* the rows of table t in which column `target` and the columns
\* `predictors` all hold a number
CompleteRows(t, target, predictors) ==
    {i \in DOMAIN t.rows :
        IsNum(t.rows[i][target]) /\ \A c \in Range(predictors) : IsNum(t.rows[i][c])}

\* the fits of the state: target, predictors and result, of the call of
\* _ols_regression or of each path printed by run_structural_paths
Fits ==
    IF op = "_ols_regression"
    THEN << [target |-> "y", predictors |-> <<"x">>, results |-> reports[1]] >>
    ELSE IF op = "run_structural_paths" THEN reports
    ELSE <<>>

\* table t without the rows outside `rows`
OnlyRows(t, rows) ==
    [t EXCEPT !.rows = [i \in 1..Cardinality(rows) |->
        t.rows[CHOOSE k \in rows : Cardinality({j \in rows : j < k}) = i - 1]]]

\* C22: a fit reports as n the number of rows in which the target and
\* every predictor are numbers, holds an intercept and one coefficient per
\* predictor under the predictor's name, and _ols_regression returns what
\* it returns on the table of these rows alone.
C22_CompleteCases ==
    /\ \A k \in DOMAIN Fits :
          LET f == Fits[k]
          IN  /\ f.results.n = Cardinality(CompleteRows(df, f.target, f.predictors))
              /\ [j \in DOMAIN f.results.coefficients |-> f.results.coefficients[j].name]
                    = f.predictors
              /\ "intercept" \in DOMAIN f.results
              /\ "intercept" \notin Range(f.predictors)
    /\ op = "_ols_regression" =>
          \E ulp \in RoundingOutcomes :
             reports[1] = _ols_regression(
                             Series(OnlyRows(df, CompleteRows(df, "y", <<"x">>)), "y"),
                             Project(OnlyRows(df, CompleteRows(df, "y", <<"x">>)), <<"x">>),
                             ulp)

\* three rows, one without a target, one without a predictor and one
\* complete: the fit is on one row
C22_Witness ==
    /\ op = "_ols_regression"
    /\ Len(df.rows) = 3
    /\ \E i, j \in 1..3 : ~IsNum(df.rows[i]["y"]) /\ ~IsNum(df.rows[j]["x"])
    /\ reports[1].n = 1
    /\ Len(reports[1].coefficients) = 1

\* the target and the design rows of fit f over its complete rows
TargetOf(f) ==
    LET kept == OnlyRows(df, CompleteRows(df, f.target, f.predictors))
    IN  Series(kept, f.target)
PredictedBy(f) ==
    LET kept == OnlyRows(df, CompleteRows(df, f.target, f.predictors))
    IN  [i \in DOMAIN kept.rows |->
           RAdd(f.results.intercept,
                RSum([j \in DOMAIN f.predictors |->
                        RMul(f.results.coefficients[j].value,
                             kept.rows[i][f.predictors[j]])]))]

\* the sum of the squares of the distances of the values ys from their mean
TotalSquares(ys) ==
    RSum([i \in DOMAIN ys |->
            RMul(RSub(ys[i], MeanSkipNa(ys)), RSub(ys[i], MeanSkipNa(ys)))])

\* the sum of the squares of the residuals of fit f
ResidualSquares(f) ==
    RSum([i \in DOMAIN TargetOf(f) |->
            RMul(RSub(TargetOf(f)[i], PredictedBy(f)[i]),
                 RSub(TargetOf(f)[i], PredictedBy(f)[i]))])

\* C23: a fit whose target holds one value over the complete rows reports
\* the missing value as R2, beside an intercept, the coefficients and n;
\* a fit whose target varies reports 1 - SS_res / SS_tot, which is at most
\* 1.
C23_RSquared ==
    \A k \in DOMAIN Fits :
       LET f == Fits[k]
       IN  /\ op = "_ols_regression" => err = "none"
           /\ {"intercept", "coefficients", "n", "r2"} \subseteq DOMAIN f.results
           /\ IF TotalSquares(TargetOf(f)).n = 0
              THEN f.results.r2 = NaN
              ELSE /\ f.results.r2 =
                         RSub(Int2Num(1),
                              RDiv(ResidualSquares(f), TotalSquares(TargetOf(f))))
                   /\ ~RLess(Int2Num(1), f.results.r2)

\* the complete rows of the table passed to _ols_regression lie on the
\* line y = a * x + b, and x takes two values or more over them
OnLine(a, b) ==
    LET kept == OnlyRows(df, CompleteRows(df, "y", <<"x">>))
    IN  /\ \A i \in DOMAIN kept.rows :
              kept.rows[i]["y"] = RAdd(RMul(a, kept.rows[i]["x"]), b)
        /\ \E i, j \in DOMAIN kept.rows : kept.rows[i]["x"] # kept.rows[j]["x"]

\* the intercepts and slopes of the lines through two of the rows enumerated
LineIntercepts == {Int2Num(1), Int2Num(3), Num(7, 10)}
LineSlopes == {RSub(v, w) : v \in LineIntercepts, w \in LineIntercepts}

\* C24: _ols_regression on a predictor x of two values or more and a
\* target y = 2x + 1 returns intercept 1, coefficient 2 and R2 1; on a
\* target y = a * x + b it returns intercept b and coefficient a.
C24_ExactLine ==
    op = "_ols_regression" =>
        /\ OnLine(Int2Num(2), Int2Num(1)) =>
              /\ reports[1].intercept = Int2Num(1)
              /\ reports[1].coefficients = <<[name |-> "x", value |-> Int2Num(2)]>>
              /\ reports[1].r2 = Int2Num(1)
        /\ \A a \in LineSlopes, b \in LineIntercepts :
              OnLine(a, b) =>
                 /\ reports[1].intercept = b
                 /\ reports[1].coefficients = <<[name |-> "x", value |-> a]>>

\* three complete rows on y = 2x + 1
C24_Witness ==
    /\ op = "_ols_regression"
    /\ OnLine(Int2Num(2), Int2Num(1))
    /\ reports[1].n = 3
    /\ reports[1].intercept = Int2Num(1)
    /\ reports[1].r2 = Int2Num(1)

\* the table passed with every number replaced in the columns that fit f
\* does not name
OthersAltered(f) ==
    [df EXCEPT !.rows =
        [i \in DOMAIN df.rows |->
           [c \in DOMAIN df.rows[i] |->
              IF c \in {f.target} \cup Range(f.predictors) \/ ~IsNum(df.rows[i][c])
              THEN df.rows[i][c]
              ELSE RAdd(df.rows[i][c], Int2Num(i))]]]

\* C26: every path printed by run_structural_paths holds the result of
\* _ols_regression on the observed columns of its target and of its own
\* predictors; on a table the run completes on, the path has the same
\* result when the specs are taken in the opposite order, when its spec is
\* the only one, and when the columns it does not name hold other values.
C26_PathsIndependent ==
    op = "run_structural_paths" =>
        \A k \in DOMAIN reports :
           LET f == reports[k]
           IN  /\ f.target = path_specs[k].target
               /\ f.predictors = path_specs[k].predictors
               /\ \E ulp \in RoundingOutcomes :
                     /\ f.results = _ols_regression(Series(df, f.target),
                                                    Project(df, f.predictors), ulp)
                     /\ err = "none" =>
                           /\ RunPaths(df, Reverse(path_specs), <<>>, ulp)
                                 .reports[Len(path_specs) + 1 - k] = f
                           /\ RunPaths(OthersAltered(f), <<path_specs[k]>>, <<>>, ulp)
                                 .reports = <<f>>

\* a completed run on two sites in which OE and EP vary: EP is fitted on
\* the observed OE
C26_Witness ==
    /\ op = "run_structural_paths"
    /\ err = "none"
    /\ Len(reports) = 4
    /\ Len(df.rows) = 2
    /\ df.rows[1]["OE"] = Int2Num(2)
    /\ df.rows[2]["OE"] = Int2Num(4)
    /\ df.rows[1]["EP"] = Int2Num(4)
    /\ df.rows[2]["EP"] = Int2Num(2)
    /\ reports[2].results.coefficients = <<[name |-> "OE", value |-> Int2Num(-1)]>>
    /\ reports[2].results.intercept = Int2Num(6)

\* the site ids in the rows of table t
SiteIds(t) == {t.rows[i][SITE_ID_COL] : i \in DOMAIN t.rows}

\* C25: the merge of the site construct table with the site KPI table
\* holds exactly the site ids of both tables, each in one row that carries
\* the construct values and the KPI values of that site; a run whose two
\* builders return does not fail in the merge.
C25_InnerJoin ==
    op = "main" =>
        /\ err # "none" => steps \in {<<"constructs">>, <<"constructs", "kpis">>}
        /\ err = "none" =>
              LET site_constructs == reports[1].site_constructs
                  site_kpis == reports[1].site_kpis
              IN  /\ SiteIds(out) = SiteIds(site_constructs) \cap SiteIds(site_kpis)
                  /\ \A i, j \in DOMAIN out.rows :
                        out.rows[i][SITE_ID_COL] = out.rows[j][SITE_ID_COL] => i = j
                  /\ Columns(out) = Columns(site_constructs) \cup Columns(site_kpis)
                  /\ \A i \in DOMAIN out.rows :
                        /\ \E l \in DOMAIN site_constructs.rows :
                              \A c \in Columns(site_constructs) :
                                 out.rows[i][c] = site_constructs.rows[l][c]
                        /\ \E r \in DOMAIN site_kpis.rows :
                              \A c \in Columns(site_kpis) :
                                 out.rows[i][c] = site_kpis.rows[r][c]

\* constructs of the sites A, B, C and KPIs of the sites B, C, D: the
\* merged table holds B and C
C25_Witness ==
    /\ op = "main"
    /\ err = "none"
    /\ SiteIds(reports[1].site_constructs) = {Str("A"), Str("B"), Str("C")}
    /\ SiteIds(reports[1].site_kpis) = {Str("B"), Str("C"), Str("D")}
    /\ Len(out.rows) = 2
    /\ out.rows[1][SITE_ID_COL] = Str("B")
    /\ out.rows[2][SITE_ID_COL] = Str("C")
    /\ out.rows[1]["GPUR"] # out.rows[2]["GPUR"]
    /\ out.rows[1]["uptime_percent"] # out.rows[2]["uptime_percent"]

(***************************************************************************)
(* Frame of the operations that take a table.                              *)
(***************************************************************************)
FrameOperations ==
    {"compute_indicator_means_per_site", "compute_construct_scores",
     "build_site_kpi_table", "compute_oe_hard", "compute_safety_perf",
     "compute_outer_model", "_ols_regression"}

====
